---- MODULE Spec2Model ----
(***************************************************************************)
(* A model of the inconnu redaction engine: the conflict resolver          *)
(* (inconnu/nlp/utils.py), the redaction and restore engine                *)
(* (inconnu/nlp/entity_redactor.py) and the public entry points            *)
(* (inconnu/__init__.py).                                                  *)
(*                                                                         *)
(* Texts are strings; a document is the sequence of its tokens, and the    *)
(* text of a document is the concatenation of its tokens (white space and  *)
(* line breaks are tokens of their own).  A span is a token range with a   *)
(* label; its character offsets and its text are derived from the          *)
(* document, as spaCy derives them.                                        *)
(***************************************************************************)
EXTENDS Integers, Sequences, FiniteSets, TLC

(***************************************************************************)
(* Bounds of the model.                                                    *)
(***************************************************************************)
\* threads that call into the library at the same time
NumThreads == 2
\* calls one thread makes
MaxCalls == 2
\* pieces of a text handed to restore
MaxRestoreTokens == 3
\* entries of an entity map handed to restore
MaxMapSize == 2
\* largest start and end of a span handed to validate_entity_spans
MaxIndex == 2
\* spans handed to one validate_entity_spans call
MaxValidated == 2
\* tokens of the document the conflict resolver's candidates range over
DocLen == 3
\* candidates handed to one filter_overlapping_spans call
MaxSpans == 3
\* tokens of a text handed to the engine
MaxTokens == 2
\* entities the span provider reports for one text
MaxEnts == 2
\* largest max_text_length an engine is constructed with
MaxTextLength == 9
\* texts of one redact_batch call
MaxBatch == 3
\* largest chunk size (of the engine and of a redact_batch call)
MaxChunk == 3
\* redact_stream: the longest text and the largest overlap
MaxStreamLen == 6
MaxOverlap == 3
\* validate_credit_card: the longest run of filling digits of an input
MaxFill == 18
\* validate_credit_card: the most characters that follow the filling digits
MaxTail == 2

VARIABLES
    pc,               \* position of the caller: "idle", "done", "chunk"
    op,               \* the entry point of the call in progress or just made
    spans,            \* filter_overlapping_spans: the candidate list
    filtered_spans,   \* filter_overlapping_spans: the returned list
    max_text_length,  \* Inconnu.config.max_text_length
    default_chunk,    \* Inconnu._chunk_size
    text,             \* the text of the call
    deanonymize,      \* the mode of the call (TRUE: reversible)
    nlp_invoked,      \* whether the call invoked the span provider
    nlp_raised,       \* whether the span provider raised
    nlp_text,         \* the text the span provider was invoked on
    doc,              \* the tokens of the provider's document
    ents,             \* doc.ents of the provider's document
    outcome,          \* "none", "returned", "TextTooLongError", "ProcessingError"
    redacted_text,    \* the redacted text the call returned
    entity_map,       \* the entity map the call returned, in dict order
    entity_positions, \* ProcessedData.entity_positions of the call
    original_text,    \* ProcessedData.original_text of the call
    restored,         \* what deanonymize returned
    texts,            \* redact_batch: the documents of the batch
    chunk_size,       \* redact_batch: the chunk_size argument (0: not given)
    batch_i,          \* redact_batch: the loop variable i
    results,          \* redact_batch: the results list
    replacements,     \* EntityRedactor.redact: the replacements it applied
    warn_unmatched,   \* restore: the warn_unmatched argument
    warnings,         \* restore: the tokens its warning names, in log order
    doc_length,       \* validate_entity_spans: the doc_length argument
    valid_spans,      \* validate_entity_spans: the valid_spans it returned
    errors,           \* validate_entity_spans: the errors it returned
    instances,        \* utils.instances: the registry of the singletons
    global_lock,      \* utils.global_lock: the thread that holds it, or 0
    threads,          \* the callers of EntityRedactor(language=...), by thread
    ctor_calls,       \* the runs of the constructor, by language key
    frames,           \* the frames of concurrent EntityRedactor.redact calls
    futures,          \* redact_batch_async: the tasks handed to gather
    finished,         \* redact_batch_async: the tasks in completion order
    is_valid,         \* a validator: the flag it returned
    confidence,       \* a validator: the confidence it returned, in hundredths
    overlap,          \* redact_stream: the overlap argument
    pipelines,        \* the components of the pipeline of each instance
    engine            \* Inconnu(...): the call and the engine it returned

vars == <<pc, op, spans, filtered_spans, max_text_length, default_chunk, text,
          deanonymize, nlp_invoked, nlp_raised, nlp_text, doc, ents, outcome,
          redacted_text, entity_map, entity_positions, original_text, restored,
          texts, chunk_size, batch_i, results, replacements, warn_unmatched,
          warnings,
          doc_length, valid_spans, errors, instances, global_lock, threads,
          ctor_calls, frames, futures, finished, is_valid, confidence,
          overlap, pipelines, engine>>

resolverVars == <<spans, filtered_spans>>
callVars == <<text, deanonymize, nlp_invoked, nlp_raised, nlp_text, doc, ents,
              outcome,
              redacted_text, entity_map, entity_positions, original_text,
              restored, replacements>>
batchVars == <<texts, chunk_size, batch_i, results>>
configVars == <<max_text_length, default_chunk>>
restoreVars == <<warn_unmatched, warnings>>
validateVars == <<doc_length, valid_spans, errors>>
singletonVars == <<instances, global_lock, threads, ctor_calls>>
redactThreadVars == <<frames>>
asyncVars == <<futures, finished>>
validatorVars == <<is_valid, confidence>>
streamVars == <<overlap>>
constructVars == <<pipelines, engine>>
lateVars == <<validatorVars, streamVars, constructVars>>
otherVars == <<restoreVars, validateVars, singletonVars, redactThreadVars,
               asyncVars, lateVars>>

(***************************************************************************)
(* Strings.                                                                *)
(***************************************************************************)
Min(a, b) == IF a < b THEN a ELSE b

\* s[i:j] of Python for 0 <= i, 0 <= j (offsets are 0-based, j exclusive)
Slice(s, i, j) == SubSeq(s, i + 1, Min(j, Len(s)))

\* s[i] of Python
CharAt(s, i) == SubSeq(s, i + 1, i + 1)

\* the characters of the model in code point order
CodePoints == "\t\n\r 0123456789ABCDEFGHIJKLMNOPQRSTUVWXYZ[]_abcdefghijklmnopqrstuvwxyz"

Ord(c) == CHOOSE i \in 1..Len(CodePoints) : SubSeq(CodePoints, i, i) = c

\* a < b of Python for strings
RECURSIVE StrLess(_, _)
StrLess(a, b) ==
    IF Len(b) = 0 THEN FALSE
    ELSE IF Len(a) = 0 THEN TRUE
    ELSE IF Head(a) = Head(b) THEN StrLess(Tail(a), Tail(b))
    ELSE Ord(Head(a)) < Ord(Head(b))

\* str(n) of Python for n >= 0
RECURSIVE IntToStr(_)
IntToStr(n) ==
    IF n < 10 THEN SubSeq("0123456789", n + 1, n + 1)
    ELSE IntToStr(n \div 10) \o SubSeq("0123456789", (n % 10) + 1, (n % 10) + 1)

\* s.find(sub) of Python: the least offset of sub in s, or -1
Find(s, sub) ==
    LET hits == {i \in 0..(Len(s) - Len(sub)) : Slice(s, i, i + Len(sub)) = sub}
    IN  IF hits = {} THEN -1 ELSE CHOOSE i \in hits : \A j \in hits : i <= j

\* s.startswith(prefix) of Python
StartsWith(s, prefix) ==
    Len(s) >= Len(prefix) /\ SubSeq(s, 1, Len(prefix)) = prefix

\* s.replace(old, new) of Python, old not empty: the occurrences of old,
\* found left to right without overlap, are replaced
RECURSIVE Replace(_, _, _)
Replace(s, old, new) ==
    IF Len(s) < Len(old) THEN s
    ELSE IF SubSeq(s, 1, Len(old)) = old
         THEN new \o Replace(SubSeq(s, Len(old) + 1, Len(s)), old, new)
         ELSE Head(s) \o Replace(Tail(s), old, new)

(***************************************************************************)
(* Documents and spans.                                                    *)
(***************************************************************************)
\* "".join(tokens[i] for i in lo..hi-1), token offsets 0-based
RECURSIVE JoinTokens(_, _, _)
JoinTokens(tokens, lo, hi) ==
    IF lo >= hi \/ lo >= Len(tokens) THEN ""
    ELSE tokens[lo + 1] \o JoinTokens(tokens, lo + 1, hi)

DocText(tokens) == JoinTokens(tokens, 0, Len(tokens))

\* Span(doc, start, end, label=label)
MkSpan(tokens, start, end, label) ==
    [start |-> start, end |-> end, label_ |-> label,
     start_char |-> Len(JoinTokens(tokens, 0, start)),
     end_char |-> Len(JoinTokens(tokens, 0, end)),
     text |-> JoinTokens(tokens, start, end)]

(***************************************************************************)
(* filter_overlapping_spans.                                               *)
(***************************************************************************)
ENTITY_PRIORITY ==
    [l \in {"PERSON"} |-> 10] @@
    [l \in {"SSN", "EMAIL"} |-> 9] @@
    [l \in {"PHONE_NUMBER", "BADGE_NUMBER", "PASSPORT", "DRIVER_LICENSE",
            "CREDIT_CARD", "MRN", "NPI", "DEA_NUMBER"} |-> 8] @@
    [l \in {"IBAN", "TICKET_NUMBER", "SWIFT_CODE", "ROUTING_NUMBER",
            "CASE_NUMBER", "BAR_NUMBER", "VIN"} |-> 7] @@
    [l \in {"DATE", "CRYPTO_WALLET", "STUDENT_ID", "EMPLOYEE_ID", "ICD_CODE",
            "PARTICIPANT_ID", "STUDY_ID", "ORDER_NUMBER"} |-> 6] @@
    [l \in {"GPE", "LOC", "CUSTOMER_ID"} |-> 5] @@
    [l \in {"ORG"} |-> 4] @@
    [l \in {"MONEY"} |-> 3] @@
    [l \in {"TIME"} |-> 2] @@
    [l \in {"WORK_OF_ART", "LANGUAGE", "PRODUCT", "EVENT", "NORP", "FAC",
            "LAW"} |-> 1] @@
    [l \in {"MISC"} |-> 0]

\* priority_cache[label]: ENTITY_PRIORITY.get(label, 0)
Priority(label) ==
    IF label \in DOMAIN ENTITY_PRIORITY THEN ENTITY_PRIORITY[label] ELSE 0

\* set(range(span.start, span.end))
Positions(span) == span.start .. (span.end - 1)

\* the sort key with the priority left out
SpanKeyWithoutPriority(span) ==
    <<span.start, -(span.end - span.start), 0, Len(span.text), span.text>>

\* the sort key of a candidate
SpanKey(span) ==
    <<span.start, -(span.end - span.start), -Priority(span.label_),
      Len(span.text), span.text>>

\* the comparison of two sort keys by their first component alone
KeyLessByStart(a, b) == a[1] < b[1]

\* a < b of Python for two sort keys
KeyLess(a, b) ==
    \/ a[1] < b[1]
    \/ a[1] = b[1] /\ a[2] < b[2]
    \/ a[1] = b[1] /\ a[2] = b[2] /\ a[3] < b[3]
    \/ a[1] = b[1] /\ a[2] = b[2] /\ a[3] = b[3] /\ a[4] < b[4]
    \/ a[1] = b[1] /\ a[2] = b[2] /\ a[3] = b[3] /\ a[4] = b[4]
       /\ StrLess(a[5], b[5])

\* one step of a stable sort: x goes before the first element that is greater
RECURSIVE InsertByKey(_, _)
InsertByKey(sorted, x) ==
    IF sorted = <<>> THEN <<x>>
    ELSE IF KeyLess(SpanKey(x), SpanKey(Head(sorted)))
         THEN <<x>> \o sorted
         ELSE <<Head(sorted)>> \o InsertByKey(Tail(sorted), x)

\* sorted(spans, key=...) : stable, ascending
RECURSIVE SortedSpans(_)
SortedSpans(s) ==
    IF s = <<>> THEN <<>>
    ELSE InsertByKey(SortedSpans(SubSeq(s, 1, Len(s) - 1)), s[Len(s)])

RECURSIVE InsertByStart(_, _)
InsertByStart(sorted, x) ==
    IF sorted = <<>> THEN <<x>>
    ELSE IF x.start < Head(sorted).start
         THEN <<x>> \o sorted
         ELSE <<Head(sorted)>> \o InsertByStart(Tail(sorted), x)

\* sorted(filtered_spans, key=lambda span: span.start)
RECURSIVE SortedByStart(_)
SortedByStart(s) ==
    IF s = <<>> THEN <<>>
    ELSE InsertByStart(SortedByStart(SubSeq(s, 1, Len(s) - 1)), s[Len(s)])

\* the acceptance test looking at the last position of the span only
AcceptsLastPositionOnly(span, covered) == (span.end - 1) \notin covered

\* whether the sweep accepts a span, given the covered positions
Accepts(span, covered) == Positions(span) \cap covered = {}

\* the sweep leaving its loop at the first candidate it rejects
RECURSIVE SweepStopsAtConflict(_, _, _)
SweepStopsAtConflict(sorted, kept, covered) ==
    IF sorted = <<>> THEN kept
    ELSE IF Positions(Head(sorted)) \cap covered = {}
         THEN SweepStopsAtConflict(Tail(sorted), Append(kept, Head(sorted)),
                                   covered \cup Positions(Head(sorted)))
         ELSE kept

\* the sweep over the sorted candidates
RECURSIVE Sweep(_, _, _)
Sweep(sorted, kept, covered) ==
    IF sorted = <<>> THEN kept
    ELSE IF Accepts(Head(sorted), covered)
         THEN Sweep(Tail(sorted), Append(kept, Head(sorted)),
                    covered \cup Positions(Head(sorted)))
         ELSE Sweep(Tail(sorted), kept, covered)

FilterOverlappingSpans(s) ==
    IF s = <<>> THEN <<>>
    ELSE SortedByStart(Sweep(SortedSpans(s), <<>>, {}))

(***************************************************************************)
(* validate_entity_spans.                                                  *)
(***************************************************************************)
\* doc_length=None
NoLength == -1

\* a span whose attributes raise when they are read carries the message of
\* the exception in `raises`
Raises(span) == "raises" \in DOMAIN span

\* hasattr(span, "start") and hasattr(span, "end")
HasStartEnd(span) == {"start", "end"} \subseteq DOMAIN span

\* whether validate_entity_spans keeps a span
ValidSpan(span, length) ==
    /\ ~Raises(span)
    /\ HasStartEnd(span)
    /\ ~(span.start < 0 \/ span.end < 0)
    /\ ~(span.start >= span.end)
    /\ ~(/\ length # NoLength
         /\ length # 0
         /\ (span.start >= length \/ span.end > length))

\* valid_spans cut short at the first span whose inspection raises: the
\* loop without its try
RECURSIVE ValidateUntilRaise(_, _)
ValidateUntilRaise(s, length) ==
    IF s = <<>> \/ Raises(Head(s)) THEN <<>>
    ELSE IF ValidSpan(Head(s), length)
         THEN <<Head(s)>> \o ValidateUntilRaise(Tail(s), length)
         ELSE ValidateUntilRaise(Tail(s), length)

\* valid_spans of validate_entity_spans(spans, doc_length)
RECURSIVE ValidateEntitySpans(_, _)
ValidateEntitySpans(s, length) ==
    IF s = <<>> THEN <<>>
    ELSE IF ValidSpan(Head(s), length)
         THEN <<Head(s)>> \o ValidateEntitySpans(Tail(s), length)
         ELSE ValidateEntitySpans(Tail(s), length)

\* str(n) of Python for an integer
SignedToStr(n) == IF n < 0 THEN "-" \o IntToStr(0 - n) ELSE IntToStr(n)

\* the error string of span i, or "" when the span is kept
SpanError(span, i, length) ==
    IF Raises(span)
    THEN "Error validating span " \o IntToStr(i) \o ": " \o span.raises
    ELSE IF ~HasStartEnd(span)
    THEN "Span " \o IntToStr(i) \o " missing start/end attributes"
    ELSE IF span.start < 0 \/ span.end < 0
    THEN "Span " \o IntToStr(i) \o " has negative indices: start=" \o
         SignedToStr(span.start) \o ", end=" \o SignedToStr(span.end)
    ELSE IF span.start >= span.end
    THEN "Span " \o IntToStr(i) \o " has invalid range: start=" \o
         SignedToStr(span.start) \o " >= end=" \o SignedToStr(span.end)
    ELSE IF /\ length # NoLength
            /\ length # 0
            /\ (span.start >= length \/ span.end > length)
    THEN "Span " \o IntToStr(i) \o " out of bounds: [" \o
         SignedToStr(span.start) \o ", " \o SignedToStr(span.end) \o
         ") in doc of length " \o IntToStr(length)
    ELSE ""

\* errors of validate_entity_spans(spans, doc_length), from span i on
RECURSIVE ValidationErrors(_, _, _)
ValidationErrors(s, i, length) ==
    IF s = <<>> THEN <<>>
    ELSE IF SpanError(Head(s), i, length) # ""
         THEN <<SpanError(Head(s), i, length)>> \o
              ValidationErrors(Tail(s), i + 1, length)
         ELSE ValidationErrors(Tail(s), i + 1, length)

(***************************************************************************)
(* EntityRedactor.redact and EntityRedactor.deanonymize.                   *)
(***************************************************************************)
\* the label a placeholder carries
NormalizeLabel(label) == IF StartsWith(label, "PER") THEN "PERSON" ELSE label

\* end_char left as it is when the entity holds a line break
KeepsNewline(t, start_char, end_char) == end_char

\* end_char after the truncation at the first line break
TruncateAtNewline(t, start_char, end_char) ==
    LET newline_pos == Find(Slice(t, start_char, end_char), "\n")
    IN  IF newline_pos # -1 THEN start_char + newline_pos ELSE end_char

\* end_char after the loop that drops trailing white space
RECURSIVE TrimTrailing(_, _, _)
TrimTrailing(t, start_char, end_char) ==
    IF end_char > start_char /\ CharAt(t, end_char - 1) \in {" ", "\t", "\r"}
    THEN TrimTrailing(t, start_char, end_char - 1)
    ELSE end_char

\* the placeholders of a label numbered from 1
PlaceholderOneBased(label, n, reversible) ==
    IF reversible THEN "[" \o label \o "_" \o IntToStr(n + 1) \o "]"
    ELSE "[" \o label \o "]"

\* the placeholder carrying its index in both modes
PlaceholderAlwaysIndexed(label, n, reversible) ==
    "[" \o label \o "_" \o IntToStr(n) \o "]"

\* the placeholder of the n-th span of a label
Placeholder(label, n, reversible) ==
    IF reversible THEN "[" \o label \o "_" \o IntToStr(n) \o "]"
    ELSE "[" \o label \o "]"

\* entity_map of redact is a dict from label to a list of (text, placeholder):
\* a sequence of [label, items] in insertion order
HasLabel(buckets, label) == \E i \in 1..Len(buckets) : buckets[i].label = label

\* if label not in entity_map: entity_map[label] = []
WithLabel(buckets, label) ==
    IF HasLabel(buckets, label) THEN buckets
    ELSE Append(buckets, [label |-> label, items |-> <<>>])

\* entity_map[label]
ItemsOf(buckets, label) ==
    LET i == CHOOSE k \in 1..Len(buckets) : buckets[k].label = label
    IN  buckets[i].items

\* entity_map[label].append(item)
AppendItem(buckets, label, item) ==
    [i \in 1..Len(buckets) |->
        IF buckets[i].label = label
        THEN [buckets[i] EXCEPT !.items = Append(@, item)]
        ELSE buckets[i]]

\* the loop over valid_ents: the entity map and the replacements it builds
RECURSIVE PrepareReplacements(_, _, _, _, _)
PrepareReplacements(valid_ents, t, reversible, buckets, repl) ==
    IF valid_ents = <<>>
    THEN [entity_map |-> buckets, replacements |-> repl]
    ELSE
      LET ent == Head(valid_ents)
          rest == Tail(valid_ents)
          label == NormalizeLabel(ent.label_)
      IN  IF label = "CARDINAL"
          THEN PrepareReplacements(rest, t, reversible, buckets, repl)
          ELSE
            LET withLabel == WithLabel(buckets, label)
                start_char == ent.start_char
                end_char ==
                    TrimTrailing(t, start_char,
                        TruncateAtNewline(t, start_char, ent.end_char))
            IN  IF start_char >= end_char
                THEN PrepareReplacements(rest, t, reversible, withLabel,
                                         repl)
                ELSE
                  LET entity_text == Slice(t, start_char, end_char)
                      placeholder ==
                          Placeholder(label, Len(ItemsOf(withLabel, label)),
                                      reversible)
                  IN  PrepareReplacements(rest, t, reversible,
                          IF reversible
                          THEN AppendItem(withLabel, label,
                                          <<entity_text, placeholder>>)
                          ELSE withLabel,
                          Append(repl,
                                 <<start_char, end_char, placeholder>>))

\* the replacements left in document order
UnsortedReplacements(r) == r

RECURSIVE InsertByStartDesc(_, _)
InsertByStartDesc(sorted, x) ==
    IF sorted = <<>> THEN <<x>>
    ELSE IF x[1] > Head(sorted)[1]
         THEN <<x>> \o sorted
         ELSE <<Head(sorted)>> \o InsertByStartDesc(Tail(sorted), x)

\* replacements.sort(key=lambda x: x[0], reverse=True)
RECURSIVE SortedReplacements(_)
SortedReplacements(r) ==
    IF r = <<>> THEN <<>>
    ELSE InsertByStartDesc(SortedReplacements(SubSeq(r, 1, Len(r) - 1)),
                           r[Len(r)])

\* redacted_text[:start] + placeholder + redacted_text[end:], for each
RECURSIVE ApplyReplacements(_, _)
ApplyReplacements(t, repl) ==
    IF repl = <<>> THEN t
    ELSE LET r == Head(repl)
         IN  ApplyReplacements(
                 Slice(t, 0, r[1]) \o r[3] \o Slice(t, r[2], Len(t)),
                 Tail(repl))

\* d[key] = value on a dict kept as a sequence of <<key, value>> in
\* insertion order
DictPut(d, key, value) ==
    IF \E i \in 1..Len(d) : d[i][1] = key
    THEN [i \in 1..Len(d) |-> IF d[i][1] = key THEN <<key, value>> ELSE d[i]]
    ELSE Append(d, <<key, value>>)

RECURSIVE PutItems(_, _)
PutItems(d, items) ==
    IF items = <<>> THEN d
    ELSE PutItems(DictPut(d, Head(items)[2], Head(items)[1]), Tail(items))

\* {v[1]: v[0] for values in entity_map.values() for v in values}
RECURSIVE FlattenEntityMap(_, _)
FlattenEntityMap(d, buckets) ==
    IF buckets = <<>> THEN d
    ELSE FlattenEntityMap(PutItems(d, Head(buckets).items), Tail(buckets))

\* EntityRedactor.redact(text=t, deanonymize=reversible), the span provider
\* answering with `answer`: it raises, or returns a document with its ents
EntityRedactorRedact(t, answer, reversible) ==
    IF answer.raised
    THEN [raised |-> FALSE, redacted_text |-> t, entity_map |-> <<>>,
          replacements |-> <<>>]
    ELSE
      LET valid_ents == ValidateEntitySpans(answer.ents, Len(answer.tokens))
          prepared ==
              PrepareReplacements(valid_ents, t, reversible, <<>>, <<>>)
      IN  [raised |-> FALSE,
           redacted_text |->
               ApplyReplacements(t, SortedReplacements(prepared.replacements)),
           entity_map |-> FlattenEntityMap(<<>>, prepared.entity_map),
           replacements |-> SortedReplacements(prepared.replacements)]

\* EntityRedactor.deanonymize: the loop over entity_map.items()
RECURSIVE Deanonymize(_, _)
Deanonymize(t, items) ==
    IF items = <<>> THEN t
    ELSE Deanonymize(Replace(t, Head(items)[1], Head(items)[2]), Tail(items))

(***************************************************************************)
(* restore(text, entity_map, warn_unmatched): one scan of the text for the *)
(* tokens of the placeholder grammar \[[A-Z_]+(_\d+)?\], each token that   *)
(* is a key replaced by its value, then a scan of the result for the       *)
(* tokens that are not keys.                                               *)
(***************************************************************************)
UpperOrUnderscore ==
    {SubSeq("ABCDEFGHIJKLMNOPQRSTUVWXYZ_", i, i) : i \in 1..27}

Digits == {SubSeq("0123456789", i, i) : i \in 1..10}

\* the first index from i on (1-based) whose character is not in chars
RECURSIVE RunEnd(_, _, _)
RunEnd(t, i, chars) ==
    IF i <= Len(t) /\ SubSeq(t, i, i) \in chars
    THEN RunEnd(t, i + 1, chars)
    ELSE i

\* the index of the last character of the token that starts at index i, or
\* 0 when no token starts there
TokenEnd(t, i) ==
    IF SubSeq(t, i, i) # "[" THEN 0
    ELSE
      LET p == RunEnd(t, i + 1, UpperOrUnderscore)
          q == RunEnd(t, p, Digits)
      IN  IF p = i + 1 THEN 0
          ELSE IF SubSeq(t, p, p) = "]" THEN p
          ELSE IF /\ q > p
                  /\ p > i + 2
                  /\ SubSeq(t, p - 1, p - 1) = "_"
                  /\ SubSeq(t, q, q) = "]"
               THEN q
          ELSE 0

\* token in entity_map
IsKey(m, token) == \E k \in 1..Len(m) : m[k][1] = token

\* entity_map[token]
ValueOf(m, token) == m[CHOOSE k \in 1..Len(m) : m[k][1] = token][2]

\* the scan that substitutes, from index i on
RECURSIVE RestoreFrom(_, _, _)
RestoreFrom(t, m, i) ==
    IF i > Len(t) THEN ""
    ELSE
      LET j == TokenEnd(t, i)
      IN  IF j = 0 THEN SubSeq(t, i, i) \o RestoreFrom(t, m, i + 1)
          ELSE LET token == SubSeq(t, i, j)
               IN  (IF IsKey(m, token) THEN ValueOf(m, token) ELSE token)
                   \o RestoreFrom(t, m, j + 1)

\* restoration by str.replace, one key after the other
RestoreByReplace(t, m) == Deanonymize(t, m)

\* the text restore returns
Restore(t, m) == RestoreFrom(t, m, 1)

\* the tokens of t from index i on that are not keys, in order, each once
RECURSIVE UnmatchedFrom(_, _, _, _)
UnmatchedFrom(t, m, i, found) ==
    IF i > Len(t) THEN found
    ELSE
      LET j == TokenEnd(t, i)
      IN  IF j = 0 THEN UnmatchedFrom(t, m, i + 1, found)
          ELSE LET token == SubSeq(t, i, j)
               IN  UnmatchedFrom(t, m, j + 1,
                       IF IsKey(m, token)
                          \/ \E k \in 1..Len(found) : found[k] = token
                       THEN found
                       ELSE Append(found, token))

\* every token of the result reported, key or not
RECURSIVE AllTokensFrom(_, _, _)
AllTokensFrom(t, i, found) ==
    IF i > Len(t) THEN found
    ELSE
      LET j == TokenEnd(t, i)
      IN  IF j = 0 THEN AllTokensFrom(t, i + 1, found)
          ELSE AllTokensFrom(t, j + 1, Append(found, SubSeq(t, i, j)))

UnmatchedOrNot(t, m) == AllTokensFrom(t, 1, <<>>)

\* the tokens the warning of restore names, for the restored text t
Unmatched(t, m) == UnmatchedFrom(t, m, 1, <<>>)

(***************************************************************************)
(* The state after construction, and the caller's return to idle.          *)
(***************************************************************************)
\* Inconnu.__init__: max_text_length: int = 75_000
DefaultMaxTextLength == 75000
\* Inconnu.__init__: chunk_size: int = 100
DefaultChunkSize == 100

\* the threads of the callers
Threads == 1..NumThreads

\* the language keys of the registry
Languages == {"en", "de"}

\* instances = {}: no key has an instance (0)
EmptyRegistry == [l \in Languages |-> 0]

\* a thread that is not inside a call; `calls` counts the calls it has made
IdleThread(calls) ==
    [pc |-> "idle", language |-> "", path |-> "", result |-> 0,
     calls |-> calls]

\* a thread that is not inside EntityRedactor.redact
IdleRedact ==
    [pc |-> "idle", text |-> "", deanonymize |-> FALSE,
     answer |-> [raised |-> FALSE, tokens |-> <<>>, ents |-> <<>>],
     valid_ents |-> <<>>, entity_map |-> <<>>, replacements |-> <<>>,
     redacted_text |-> "", result_map |-> <<>>]

\* no Inconnu(...) call was made
NoCall == [language |-> "", custom_components |-> {}, instance |-> 0]

\* the module as it is imported: nothing constructed, no thread in a call
NoEngine ==
    /\ instances = EmptyRegistry
    /\ ctor_calls = [l \in Languages |-> 0]
    /\ pipelines = [l \in Languages |-> {}]

\* Inconnu(language="en") was constructed: its EntityRedactor is registered
EngineConstructed ==
    /\ instances = [l \in Languages |-> IF l = "en" THEN 1 ELSE 0]
    /\ ctor_calls = [l \in Languages |-> IF l = "en" THEN 1 ELSE 0]
    /\ pipelines = [l \in Languages |-> {}]

\* no call in progress: every variable of a call frame is empty
IdleFrame ==
    /\ pc = "idle"
    /\ op = "none"
    /\ spans = <<>>
    /\ filtered_spans = <<>>
    /\ text = ""
    /\ deanonymize = FALSE
    /\ nlp_invoked = FALSE
    /\ nlp_raised = FALSE
    /\ nlp_text = ""
    /\ doc = <<>>
    /\ ents = <<>>
    /\ outcome = "none"
    /\ redacted_text = ""
    /\ entity_map = <<>>
    /\ entity_positions = <<>>
    /\ original_text = ""
    /\ restored = ""
    /\ texts = <<>>
    /\ chunk_size = 0
    /\ batch_i = 0
    /\ results = <<>>
    /\ replacements = <<>>
    /\ warn_unmatched = TRUE
    /\ warnings = <<>>
    /\ doc_length = NoLength
    /\ valid_spans = <<>>
    /\ errors = <<>>
    /\ futures = <<>>
    /\ finished = <<>>
    /\ is_valid = FALSE
    /\ confidence = 0
    /\ overlap = 0
    /\ engine = NoCall
    /\ global_lock = 0
    /\ threads = [t \in Threads |-> IdleThread(0)]
    /\ frames = [t \in Threads |-> IdleRedact]

\* the caller drops the result of the call it made and is ready for the next
Return ==
    /\ pc \in {"done", "restored"}
    /\ pc' = "idle"
    /\ op' = "none"
    /\ spans' = <<>>
    /\ filtered_spans' = <<>>
    /\ text' = ""
    /\ deanonymize' = FALSE
    /\ nlp_invoked' = FALSE
    /\ nlp_raised' = FALSE
    /\ nlp_text' = ""
    /\ doc' = <<>>
    /\ ents' = <<>>
    /\ outcome' = "none"
    /\ redacted_text' = ""
    /\ entity_map' = <<>>
    /\ entity_positions' = <<>>
    /\ original_text' = ""
    /\ restored' = ""
    /\ texts' = <<>>
    /\ chunk_size' = 0
    /\ batch_i' = 0
    /\ results' = <<>>
    /\ replacements' = <<>>
    /\ warn_unmatched' = TRUE
    /\ warnings' = <<>>
    /\ doc_length' = NoLength
    /\ valid_spans' = <<>>
    /\ errors' = <<>>
    /\ futures' = <<>>
    /\ finished' = <<>>
    /\ is_valid' = FALSE
    /\ confidence' = 0
    /\ overlap' = 0
    /\ engine' = NoCall
    /\ UNCHANGED <<configVars, singletonVars, redactThreadVars, pipelines>>

(***************************************************************************)
(* The conflict resolver, called on candidates over one document.          *)
(***************************************************************************)
\* the document the candidates are spans of
ResolverDoc == [i \in 1..DocLen |-> IF i % 2 = 1 THEN "Jo" ELSE " "]

\* labels of the candidates: PERSON (priority 10), ORG (4), MISC (0) and PER,
\* which the priority table does not name
ResolverLabels == {"PERSON", "ORG", "MISC", "PER"}

Candidates ==
    {MkSpan(ResolverDoc, s, e, l) :
        s \in 0..(DocLen - 1), e \in 1..DocLen, l \in ResolverLabels}

CandidateLists ==
    UNION {[1..n -> {c \in Candidates : c.start < c.end}] : n \in 0..MaxSpans}

InitResolve ==
    /\ IdleFrame
    /\ NoEngine
    /\ max_text_length = DefaultMaxTextLength
    /\ default_chunk = DefaultChunkSize

\* filtered = filter_overlapping_spans(spans)
Filter ==
    /\ pc = "idle"
    /\ \E s \in CandidateLists :
        /\ spans' = s
        /\ filtered_spans' = FilterOverlappingSpans(s)
    /\ pc' = "done"
    /\ op' = "filter_overlapping_spans"
    /\ UNCHANGED <<callVars, batchVars, configVars, otherVars>>

NextResolve == Filter \/ Return

SpecResolve == InitResolve /\ [][NextResolve]_vars

(***************************************************************************)
(* Properties of the conflict resolver.                                    *)
(***************************************************************************)
Elems(s) == {s[i] : i \in 1..Len(s)}

\* two half-open ranges [start, end) share an offset
Overlap(a, b) == a.start < b.end /\ b.start < a.end

Filtered == pc = "done" /\ op = "filter_overlapping_spans"

\* the orderings of a list
Orderings(s) ==
    {[i \in 1..Len(s) |-> s[p[i]]] :
        p \in {q \in [1..Len(s) -> 1..Len(s)] :
                 \A i, j \in 1..Len(s) : q[i] = q[j] => i = j}}

\* C1: the list filter_overlapping_spans returns holds only candidates, and
\* no two returned spans have ranges [start, end) that share an offset.
C1_NonOverlap ==
    Filtered =>
        /\ Elems(filtered_spans) \subseteq Elems(spans)
        /\ \A i, j \in 1..Len(filtered_spans) :
             i # j => ~Overlap(filtered_spans[i], filtered_spans[j])

\* C1 witness: overlapping candidates went in and two spans came out
C1_Witness ==
    /\ Filtered
    /\ Len(filtered_spans) >= 2
    /\ \E a, b \in Elems(spans) : a # b /\ Overlap(a, b)

\* C7 as stated: every ordering of the same candidates gives the same
\* selection in the same order.
C7_OrderIndependent ==
    Filtered =>
        \A o \in Orderings(spans) : FilterOverlappingSpans(o) = filtered_spans

\* two candidates the sort key cannot tell apart: the same range, different
\* labels of equal priority
KeyTie(a, b) ==
    /\ a # b
    /\ a.start = b.start
    /\ a.end = b.end
    /\ Priority(a.label_) = Priority(b.label_)

\* C7 amended: when no two candidates have the same range and different
\* labels of equal priority, every ordering of the candidates gives the same
\* selection in the same order (candidates the key ties are resolved first
\* come, in input order).
C7_OrderIndependentWithoutTies ==
    (Filtered /\ \A a, b \in Elems(spans) : ~KeyTie(a, b)) =>
        \A o \in Orderings(spans) : FilterOverlappingSpans(o) = filtered_spans

\* C7 witness: three distinct candidates without a key tie, some overlapping,
\* given in an order that is not the sorted one
C7_Witness ==
    /\ Filtered
    /\ Len(spans) = 3
    /\ Cardinality(Elems(spans)) = 3
    /\ \A a, b \in Elems(spans) : ~KeyTie(a, b)
    /\ \E a, b \in Elems(spans) : a # b /\ Overlap(a, b)
    /\ spans # SortedSpans(spans)
    /\ filtered_spans # <<>>

\* C8: the returned set is maximal: every candidate that is not returned
\* overlaps a returned span.
C8_Maximal ==
    Filtered =>
        \A c \in Elems(spans) :
            c \notin Elems(filtered_spans) =>
                \E r \in Elems(filtered_spans) : Overlap(c, r)

\* C8 witness: a candidate was rejected and a span after it was kept
C8_Witness ==
    /\ Filtered
    /\ \E c \in Elems(spans) :
        /\ c \notin Elems(filtered_spans)
        /\ \E r \in Elems(filtered_spans) : r.start > c.start

(***************************************************************************)
(* The span provider (the spaCy pipeline), seen from the engine: invoked   *)
(* on a text it raises, or it returns a document of that text with its     *)
(* entities, which are token ranges in document order that do not overlap. *)
(***************************************************************************)
\* a word, a space, a tab, a line break, and two words that look like
\* placeholders
Tokens == {"Jo", " ", "\t", "\n", "[LOC_0]", "[LOC_1]"}

\* labels of the provider's entities
EngineLabels == {"PERSON", "PER", "LOC", "CARDINAL"}

TokenSeqs == UNION {[1..n -> Tokens] : n \in 0..MaxTokens}

\* the texts a caller hands to the engine
Texts == {DocText(k) : k \in TokenSeqs}

\* the documents of a text
ProviderDocs(t) == {k \in TokenSeqs : DocText(k) = t}

AllEnts(tokens) ==
    {MkSpan(tokens, s, e, l) :
        s \in 0..(Len(tokens) - 1), e \in 1..Len(tokens), l \in EngineLabels}

\* the values doc.ents can have
EntLists(tokens) ==
    LET all == {x \in AllEnts(tokens) : x.start < x.end}
    IN  UNION {{q \in [1..n -> all] :
                   \A i \in 1..(n - 1) : q[i].end <= q[i + 1].start} :
               n \in 0..Min(MaxEnts, Len(tokens))}

\* what self.nlp(text) can do
ProviderAnswers(t) ==
    {[raised |-> TRUE, tokens |-> <<>>, ents |-> <<>>]} \cup
    UNION {{[raised |-> FALSE, tokens |-> k, ents |-> e] : e \in EntLists(k)} :
           k \in ProviderDocs(t)}

(***************************************************************************)
(* The entry points of Inconnu.                                            *)
(***************************************************************************)
\* the length check with >= for >
TooLongOrEqual(t) == Len(t) >= max_text_length

\* len(text) > self.config.max_text_length
TooLong(t) == Len(t) > max_text_length

\* raise TextTooLongError(len(text), self.config.max_text_length)
RaiseTextTooLong ==
    /\ outcome' = "TextTooLongError"
    /\ nlp_invoked' = FALSE
    /\ nlp_raised' = FALSE
    /\ nlp_text' = ""
    /\ doc' = <<>>
    /\ ents' = <<>>
    /\ redacted_text' = ""
    /\ entity_map' = <<>>
    /\ entity_positions' = <<>>
    /\ original_text' = ""
    /\ replacements' = <<>>

\* doc = self.nlp(text), answered with `answer`
InvokeProvider(t, answer) ==
    /\ nlp_invoked' = TRUE
    /\ nlp_text' = t
    /\ nlp_raised' = answer.raised
    /\ doc' = answer.tokens
    /\ ents' = answer.ents

\* what Inconnu.redact(text) does with a text that is not too long:
\* result, _ = self.entity_redactor.redact(text=text, deanonymize=False)
RedactResult(t, answer) ==
    LET r == EntityRedactorRedact(t, answer, FALSE)
    IN  IF r.raised THEN [outcome |-> "ProcessingError", value |-> ""]
        ELSE [outcome |-> "returned", value |-> r.redacted_text]

\* Inconnu.redact(text): the redacted text alone
Redact ==
    /\ pc = "idle"
    /\ \E t \in Texts :
        /\ text' = t
        /\ IF TooLong(t) THEN RaiseTextTooLong
           ELSE \E answer \in ProviderAnswers(t) :
                /\ InvokeProvider(t, answer)
                /\ outcome' = RedactResult(t, answer).outcome
                /\ redacted_text' = RedactResult(t, answer).value
                /\ replacements' =
                     EntityRedactorRedact(t, answer, FALSE).replacements
                /\ entity_map' = <<>>
                /\ entity_positions' = <<>>
                /\ original_text' = ""
    /\ deanonymize' = FALSE
    /\ restored' = ""
    /\ pc' = "done"
    /\ op' = "redact"
    /\ UNCHANGED <<resolverVars, batchVars, configVars, otherVars>>

\* Inconnu.pseudonymize(text): the redacted text and the entity map
Pseudonymize ==
    /\ pc = "idle"
    /\ \E t \in Texts :
        /\ text' = t
        /\ IF TooLong(t) THEN RaiseTextTooLong
           ELSE \E answer \in ProviderAnswers(t) :
                LET r == EntityRedactorRedact(t, answer, TRUE)
                IN  /\ InvokeProvider(t, answer)
                    /\ outcome' =
                         IF r.raised THEN "ProcessingError" ELSE "returned"
                    /\ redacted_text' = IF r.raised THEN "" ELSE r.redacted_text
                    /\ entity_map' = IF r.raised THEN <<>> ELSE r.entity_map
                    /\ replacements' =
                         IF r.raised THEN <<>> ELSE r.replacements
                    /\ entity_positions' = <<>>
                    /\ original_text' = ""
    /\ deanonymize' = TRUE
    /\ restored' = ""
    /\ pc' = "done"
    /\ op' = "pseudonymize"
    /\ UNCHANGED <<resolverVars, batchVars, configVars, otherVars>>

\* Inconnu.__call__(text=, deanonymize=, store_original=): a ProcessedData;
\* an exception of EntityRedactor.redact would propagate as it is
Call ==
    /\ pc = "idle"
    /\ \E t \in Texts, mode \in BOOLEAN, store_original \in BOOLEAN :
        /\ text' = t
        /\ deanonymize' = mode
        /\ IF TooLong(t) THEN RaiseTextTooLong
           ELSE \E answer \in ProviderAnswers(t) :
                LET r == EntityRedactorRedact(t, answer, mode)
                IN  /\ InvokeProvider(t, answer)
                    /\ outcome' = IF r.raised THEN "Exception" ELSE "returned"
                    /\ redacted_text' = IF r.raised THEN "" ELSE r.redacted_text
                    /\ entity_map' = IF r.raised THEN <<>> ELSE r.entity_map
                    /\ replacements' =
                         IF r.raised THEN <<>> ELSE r.replacements
                    /\ entity_positions' = <<>>
                    /\ original_text' =
                         IF store_original /\ ~r.raised THEN t ELSE ""
    /\ restored' = ""
    /\ pc' = "done"
    /\ op' = "__call__"
    /\ UNCHANGED <<resolverVars, batchVars, configVars, otherVars>>

\* Inconnu.deanonymize(processed_data=...), on the ProcessedData of the call
DeanonymizeCall ==
    /\ pc = "done"
    /\ op = "__call__"
    /\ outcome = "returned"
    /\ restored' = Deanonymize(redacted_text, entity_map)
    /\ pc' = "restored"
    /\ UNCHANGED <<op, resolverVars, batchVars, configVars, otherVars,
                   replacements, text, deanonymize,
                   nlp_invoked, nlp_raised, nlp_text, doc, ents, outcome,
                   redacted_text, entity_map, entity_positions, original_text>>

\* an engine constructed with max_text_length=MaxTextLength
Init ==
    /\ IdleFrame
    /\ EngineConstructed
    /\ max_text_length = MaxTextLength
    /\ default_chunk = DefaultChunkSize

Next == Redact \/ Pseudonymize \/ Call \/ DeanonymizeCall \/ Return

Spec == Init /\ [][Next]_vars

(***************************************************************************)
(* Inconnu.redact_batch, one chunk at a time.  A document of the batch is  *)
(* a text with the answer the span provider gives for it.                  *)
(***************************************************************************)
\* the word "Jo" with each answer of the provider that leaves it alone, names
\* it or raises, and a text that is too long
BatchDocs ==
    {[text |-> "Jo", answer |-> a] :
        a \in {x \in ProviderAnswers("Jo") :
                 \A i \in 1..Len(x.ents) : x.ents[i].label_ \in {"PER", "LOC"}}}
    \cup {[text |-> "[LOC_0][LOC_1]",
           answer |-> [raised |-> TRUE, tokens |-> <<>>, ents |-> <<>>]]}

BatchLists == UNION {[1..n -> BatchDocs] : n \in 0..MaxBatch}

\* the chunk one element short: texts[i : i + chunk_size - 1]
ChunkOneShort(list, i, size) ==
    SubSeq(list, i + 1, Min(i + size - 1, Len(list)))

\* texts[i : i + chunk_size]
Chunk(list, i, size) == SubSeq(list, i + 1, Min(i + size, Len(list)))

\* an engine constructed with chunk_size in 1..MaxChunk
InitBatch ==
    /\ IdleFrame
    /\ EngineConstructed
    /\ max_text_length = MaxTextLength
    /\ default_chunk \in 1..MaxChunk

\* redact_batch(texts, chunk_size) up to its loop; 0 stands for a chunk_size
\* that is not given
RedactBatchStart ==
    /\ pc = "idle"
    /\ \E list \in BatchLists, size \in 0..MaxChunk :
        /\ texts' = list
        /\ chunk_size' = IF size # 0 THEN size ELSE default_chunk
    /\ results' = <<>>
    /\ batch_i' = 0
    /\ pc' = "chunk"
    /\ op' = "redact_batch"
    /\ UNCHANGED <<resolverVars, callVars, configVars, otherVars>>

\* one iteration of for i in range(0, len(texts), chunk_size)
RedactBatchChunk ==
    /\ pc = "chunk"
    /\ batch_i < Len(texts)
    /\ LET chunk == Chunk(texts, batch_i, chunk_size)
           chunk_results ==
               [k \in 1..Len(chunk) |->
                   RedactResult(chunk[k].text, chunk[k].answer)]
       IN  IF \E k \in 1..Len(chunk) : TooLong(chunk[k].text)
           THEN \* self._validate_input(text) raises
                /\ outcome' = "TextTooLongError"
                /\ results' = <<>>
                /\ pc' = "done"
                /\ UNCHANGED batch_i
           ELSE IF \E k \in 1..Len(chunk) :
                      chunk_results[k].outcome # "returned"
           THEN \* self.redact(text) raises
                /\ outcome' = "ProcessingError"
                /\ results' = <<>>
                /\ pc' = "done"
                /\ UNCHANGED batch_i
           ELSE /\ results' =
                     results \o [k \in 1..Len(chunk) |-> chunk_results[k].value]
                /\ batch_i' = batch_i + chunk_size
                /\ UNCHANGED <<pc, outcome>>
    /\ UNCHANGED <<op, texts, chunk_size, resolverVars, configVars, otherVars,
                   replacements, text,
                   deanonymize, nlp_invoked, nlp_raised, nlp_text, doc, ents,
                   redacted_text, entity_map, entity_positions, original_text,
                   restored>>

\* return results
RedactBatchReturn ==
    /\ pc = "chunk"
    /\ batch_i >= Len(texts)
    /\ outcome' = "returned"
    /\ pc' = "done"
    /\ UNCHANGED <<op, batchVars, resolverVars, configVars, otherVars,
                   replacements, text, deanonymize,
                   nlp_invoked, nlp_raised, nlp_text, doc, ents, redacted_text,
                   entity_map, entity_positions, original_text, restored>>

NextBatch ==
    RedactBatchStart \/ RedactBatchChunk \/ RedactBatchReturn \/ Return

SpecBatch == InitBatch /\ [][NextBatch]_vars

(***************************************************************************)
(* restore, called on a text that was put together from pieces: words,     *)
(* an opening bracket, placeholders with and without an index, and a       *)
(* bracketed word that is not of the grammar.                              *)
(***************************************************************************)
RestorePieces == {"Jo", "[", "[LOC_0]", "[LOC_1]", "[LOC]", "[loc_0]"}

RestorePieceSeqs == UNION {[1..n -> RestorePieces] : n \in 0..MaxRestoreTokens}

\* the keys and the values of the entity maps: a value can look like a key
RestoreKeys == {"[LOC_0]", "[LOC_1]", "[LOC]"}

RestoreValues == {"Jo", "[LOC_1]", "[LOC_9]"}

\* entity maps in dict order: no key twice
RestoreMaps ==
    UNION {{m \in [1..n -> RestoreKeys \X RestoreValues] :
               \A i, j \in 1..n : i # j => m[i][1] # m[j][1]} :
           n \in 0..MaxMapSize}

\* restored = restore(text, entity_map, warn_unmatched)
RestoreCall ==
    /\ pc = "idle"
    /\ \E pieces \in RestorePieceSeqs, m \in RestoreMaps, warn \in BOOLEAN :
        /\ doc' = pieces
        /\ text' = DocText(pieces)
        /\ entity_map' = m
        /\ warn_unmatched' = warn
        /\ restored' = Restore(DocText(pieces), m)
        /\ warnings' =
             IF warn THEN Unmatched(Restore(DocText(pieces), m), m) ELSE <<>>
    /\ outcome' = "returned"
    /\ pc' = "done"
    /\ op' = "restore"
    /\ UNCHANGED <<resolverVars, lateVars, batchVars, configVars, validateVars,
                   singletonVars, redactThreadVars, asyncVars, deanonymize,
                   nlp_invoked, nlp_raised, nlp_text, ents, redacted_text,
                   entity_positions, original_text, replacements>>

NextRestore == RestoreCall \/ Return

SpecRestore == Init /\ [][NextRestore]_vars

(***************************************************************************)
(* validate_entity_spans, called on lists of spans of every kind: ranges   *)
(* with any start and end, objects without start or end, and objects whose *)
(* attributes raise.                                                       *)
(***************************************************************************)
ValidatedSpans ==
    {[start |-> a, end |-> b] : a \in (-1)..MaxIndex, b \in (-1)..MaxIndex}
    \cup {[start |-> 0], [end |-> 1], [label_ |-> "MISC"]}
    \cup {[start |-> 0, end |-> 1, raises |-> "boom"]}

ValidatedLists == UNION {[1..n -> ValidatedSpans] : n \in 0..MaxValidated}

\* valid_spans, errors = validate_entity_spans(spans, doc_length)
Validate ==
    /\ pc = "idle"
    /\ \E s \in ValidatedLists, length \in {NoLength} \cup (0..MaxIndex) :
        /\ spans' = s
        /\ doc_length' = length
        /\ valid_spans' = ValidateEntitySpans(s, length)
        /\ errors' = ValidationErrors(s, 0, length)
    /\ outcome' = "returned"
    /\ pc' = "done"
    /\ op' = "validate_entity_spans"
    /\ UNCHANGED <<filtered_spans, lateVars, batchVars, configVars, restoreVars,
                   singletonVars, redactThreadVars, asyncVars, text,
                   deanonymize, nlp_invoked, nlp_raised, nlp_text, doc, ents,
                   redacted_text, entity_map, entity_positions, original_text,
                   restored, replacements>>

NextValidate == Validate \/ Return

SpecValidate == InitResolve /\ [][NextValidate]_vars

(***************************************************************************)
(* singleton: EntityRedactor(language=...) called from several threads.    *)
(* One step is one read or write of `instances` or one operation on        *)
(* global_lock.                                                            *)
(***************************************************************************)
\* what a get-or-create call leaves alone
registryFrame ==
    <<pc, op, resolverVars, lateVars, callVars, batchVars, configVars, restoreVars,
      validateVars, redactThreadVars, asyncVars>>

\* EntityRedactor(language=l): get_instance_by_language is entered
GetInstance(t, l) ==
    /\ threads[t].pc = "idle"
    /\ threads[t].calls < MaxCalls
    /\ threads' = [threads EXCEPT ![t] =
            [pc |-> "fast_check", language |-> l, path |-> "", result |-> 0,
             calls |-> @.calls + 1]]
    /\ UNCHANGED <<instances, global_lock, ctor_calls, registryFrame>>

\* if key in instances (the fast path, without the lock)
FastCheck(t) ==
    /\ threads[t].pc = "fast_check"
    /\ threads' = [threads EXCEPT ![t] =
            IF instances[threads[t].language] # 0
            THEN [@ EXCEPT !.pc = "fast_return", !.path = "fast"]
            ELSE [@ EXCEPT !.pc = "acquire", !.path = "slow"]]
    /\ UNCHANGED <<instances, global_lock, ctor_calls, registryFrame>>

\* return instances[key]: KeyError when the key is not there
ReadBack(thread) ==
    IF instances[thread.language] # 0
    THEN [thread EXCEPT !.pc = "returned",
                        !.result = instances[thread.language]]
    ELSE [thread EXCEPT !.pc = "KeyError"]

\* return instances[key] of the fast path
FastReturn(t) ==
    /\ threads[t].pc = "fast_return"
    /\ threads' = [threads EXCEPT ![t] = ReadBack(threads[t])]
    /\ UNCHANGED <<instances, global_lock, ctor_calls, registryFrame>>

\* with global_lock: the lock is taken
Acquire(t) ==
    /\ threads[t].pc = "acquire"
    /\ global_lock = 0
    /\ global_lock' = t
    /\ threads' = [threads EXCEPT ![t].pc = "slow_check"]
    /\ UNCHANGED <<instances, ctor_calls, registryFrame>>

\* the slow path constructing without its second check
ConstructsAlways(l) == TRUE

\* if key not in instances (the second check, under the lock)
NeedsConstruction(l) == instances[l] = 0

\* the instance a run of the constructor makes: a new object
NewInstance == ctor_calls["en"] + ctor_calls["de"] + 1

\* the second check, and instances[key] = cls(*args, **kwargs) when the key
\* is not there
SlowCheck(t) ==
    /\ threads[t].pc = "slow_check"
    /\ IF NeedsConstruction(threads[t].language)
       THEN /\ ctor_calls' =
                 [ctor_calls EXCEPT ![threads[t].language] = @ + 1]
            /\ instances' =
                 [instances EXCEPT ![threads[t].language] = NewInstance]
       ELSE UNCHANGED <<instances, ctor_calls>>
    /\ threads' = [threads EXCEPT ![t].pc = "release"]
    /\ UNCHANGED <<global_lock, registryFrame>>

\* the end of the with block: the lock is released
Release(t) ==
    /\ threads[t].pc = "release"
    /\ global_lock' = 0
    /\ threads' = [threads EXCEPT ![t].pc = "final_read"]
    /\ UNCHANGED <<instances, ctor_calls, registryFrame>>

\* return instances[key] of the slow path, after the lock was released
FinalRead(t) ==
    /\ threads[t].pc = "final_read"
    /\ threads' = [threads EXCEPT ![t] = ReadBack(threads[t])]
    /\ UNCHANGED <<instances, global_lock, ctor_calls, registryFrame>>

\* the caller has its instance (or its exception) and may call again
CallerContinues(t) ==
    /\ threads[t].pc \in {"returned", "KeyError"}
    /\ threads' = [threads EXCEPT ![t] = IdleThread(@.calls)]
    /\ UNCHANGED <<instances, global_lock, ctor_calls, registryFrame>>

InitSingleton ==
    /\ IdleFrame
    /\ NoEngine
    /\ max_text_length = DefaultMaxTextLength
    /\ default_chunk = DefaultChunkSize

NextSingleton ==
    \E t \in Threads :
        \/ \E l \in Languages : GetInstance(t, l)
        \/ FastCheck(t)
        \/ FastReturn(t)
        \/ Acquire(t)
        \/ SlowCheck(t)
        \/ Release(t)
        \/ FinalRead(t)
        \/ CallerContinues(t)

SpecSingleton == InitSingleton /\ [][NextSingleton]_vars

(***************************************************************************)
(* clear_singleton_instances() called from a thread while others are in    *)
(* get-or-create calls.                                                    *)
(***************************************************************************)
\* clear_singleton_instances(): with global_lock, the lock is taken
ClearAcquire(t) ==
    /\ threads[t].pc = "idle"
    /\ threads[t].calls < MaxCalls
    /\ global_lock = 0
    /\ global_lock' = t
    /\ threads' = [threads EXCEPT ![t] =
            [pc |-> "clear", language |-> "", path |-> "clear", result |-> 0,
             calls |-> @.calls + 1]]
    /\ UNCHANGED <<instances, ctor_calls, registryFrame>>

\* instances.clear()
ClearInstances(t) ==
    /\ threads[t].pc = "clear"
    /\ instances' = EmptyRegistry
    /\ threads' = [threads EXCEPT ![t].pc = "clear_release"]
    /\ UNCHANGED <<global_lock, ctor_calls, registryFrame>>

\* the end of the with block of clear_singleton_instances
ClearRelease(t) ==
    /\ threads[t].pc = "clear_release"
    /\ global_lock' = 0
    /\ threads' = [threads EXCEPT ![t].pc = "returned"]
    /\ UNCHANGED <<instances, ctor_calls, registryFrame>>

NextClear ==
    \E t \in Threads :
        \/ \E l \in Languages : GetInstance(t, l)
        \/ FastCheck(t)
        \/ FastReturn(t)
        \/ Acquire(t)
        \/ SlowCheck(t)
        \/ Release(t)
        \/ FinalRead(t)
        \/ CallerContinues(t)
        \/ ClearAcquire(t)
        \/ ClearInstances(t)
        \/ ClearRelease(t)

SpecClear == InitSingleton /\ [][NextClear]_vars

(***************************************************************************)
(* EntityRedactor.redact called on one engine from several threads, one    *)
(* iteration of its loop at a time.  entity_map and replacements are       *)
(* locals of the call.                                                     *)
(***************************************************************************)
\* the text "JoJo" with the answers of the provider that name a part of it
\* a person or a place, and the answer that raises
ThreadDocs ==
    {[text |-> "JoJo", answer |-> a] :
        a \in {x \in ProviderAnswers("JoJo") :
                 /\ x.raised \/ x.ents # <<>>
                 /\ \A i \in 1..Len(x.ents) :
                      x.ents[i].label_ \in {"PER", "LOC"}}}

\* what a call leaves alone
redactFrame ==
    <<pc, op, resolverVars, lateVars, callVars, batchVars, configVars, restoreVars,
      validateVars, singletonVars, asyncVars>>

\* the entity map read from the dict of the first caller: a dict the calls
\* share
EntityMapOfFirst(f, t) == f[1].entity_map

\* entity_map of the call of thread t
EntityMapOf(f, t) == f[t].entity_map

\* redact(text=, deanonymize=) up to its loop: doc = self.nlp(text),
\* entity_map = {}, valid_ents, replacements = []
RedactEnter(t) ==
    /\ frames[t].pc = "idle"
    /\ \E d \in ThreadDocs, mode \in BOOLEAN :
        frames' = [frames EXCEPT ![t] =
            IF d.answer.raised
            THEN [IdleRedact EXCEPT !.pc = "done", !.text = d.text,
                                    !.deanonymize = mode, !.answer = d.answer,
                                    !.redacted_text = d.text]
            ELSE [IdleRedact EXCEPT !.pc = "loop", !.text = d.text,
                                    !.deanonymize = mode, !.answer = d.answer,
                                    !.valid_ents =
                                        ValidateEntitySpans(d.answer.ents,
                                            Len(d.answer.tokens))]]
    /\ UNCHANGED redactFrame

\* one iteration of for ent in valid_ents
RedactLoop(t) ==
    /\ frames[t].pc = "loop"
    /\ frames[t].valid_ents # <<>>
    /\ LET step ==
               PrepareReplacements(<<Head(frames[t].valid_ents)>>,
                   frames[t].text, frames[t].deanonymize,
                   EntityMapOf(frames, t), frames[t].replacements)
       IN  frames' = [frames EXCEPT ![t] =
               [@ EXCEPT !.valid_ents = Tail(frames[t].valid_ents),
                         !.entity_map = step.entity_map,
                         !.replacements = step.replacements]]
    /\ UNCHANGED redactFrame

\* the loop is over: the replacements are sorted and applied and the entity
\* map is flattened
RedactApply(t) ==
    /\ frames[t].pc = "loop"
    /\ frames[t].valid_ents = <<>>
    /\ frames' = [frames EXCEPT ![t] =
            [@ EXCEPT !.pc = "done",
                      !.redacted_text =
                          ApplyReplacements(frames[t].text,
                              SortedReplacements(frames[t].replacements)),
                      !.result_map =
                          FlattenEntityMap(<<>>, frames[t].entity_map)]]
    /\ UNCHANGED redactFrame

\* the caller has its result; the frame of the call is gone
RedactLeave(t) ==
    /\ frames[t].pc = "done"
    /\ frames' = [frames EXCEPT ![t] = IdleRedact]
    /\ UNCHANGED redactFrame

NextThreads ==
    \E t \in Threads :
        \/ RedactEnter(t)
        \/ RedactLoop(t)
        \/ RedactApply(t)
        \/ RedactLeave(t)

SpecThreads == Init /\ [][NextThreads]_vars

(***************************************************************************)
(* Inconnu.redact_batch_async: one redact_async task per text, each run by *)
(* a worker thread of the executor, and asyncio.gather over the tasks.     *)
(***************************************************************************)
\* redact_batch(texts) as a whole, from index i on with the results so far
RECURSIVE RedactBatchFrom(_, _, _, _)
RedactBatchFrom(list, i, size, acc) ==
    IF i >= Len(list) THEN [outcome |-> "returned", results |-> acc]
    ELSE
      LET chunk == Chunk(list, i, size)
          chunk_results ==
              [k \in 1..Len(chunk) |->
                  RedactResult(chunk[k].text, chunk[k].answer)]
      IN  IF \E k \in 1..Len(chunk) : TooLong(chunk[k].text)
          THEN [outcome |-> "TextTooLongError", results |-> <<>>]
          ELSE IF \E k \in 1..Len(chunk) :
                     chunk_results[k].outcome # "returned"
          THEN [outcome |-> "ProcessingError", results |-> <<>>]
          ELSE RedactBatchFrom(list, i + size, size,
                   acc \o [k \in 1..Len(chunk) |-> chunk_results[k].value])

\* what the worker that runs self.redact(text) leaves in its future
RedactFuture(d) ==
    IF TooLong(d.text)
    THEN [state |-> "raised", value |-> "TextTooLongError"]
    ELSE IF RedactResult(d.text, d.answer).outcome # "returned"
    THEN [state |-> "raised", value |-> "ProcessingError"]
    ELSE [state |-> "done", value |-> RedactResult(d.text, d.answer).value]

\* the results taken in the order in which the tasks finished
GatherAsCompleted(fut, fin) == [k \in 1..Len(fut) |-> fut[fin[k]].value]

\* asyncio.gather(*tasks): the results in the order of the tasks
Gather(fut, fin) == [k \in 1..Len(fut) |-> fut[k].value]

\* tasks = [self.redact_async(text) for text in texts]
RedactBatchAsyncStart ==
    /\ pc = "idle"
    /\ \E list \in BatchLists :
        /\ texts' = list
        /\ futures' = [k \in 1..Len(list) |->
                          [state |-> "pending", value |-> ""]]
    /\ finished' = <<>>
    /\ results' = <<>>
    /\ pc' = "gather"
    /\ op' = "redact_batch_async"
    /\ UNCHANGED <<resolverVars, lateVars, callVars, configVars, restoreVars,
                   validateVars, singletonVars, redactThreadVars, chunk_size,
                   batch_i>>

\* a worker thread finishes self.redact(texts[k])
WorkerFinishes ==
    /\ pc = "gather"
    /\ \E k \in 1..Len(futures) :
        /\ futures[k].state = "pending"
        /\ futures' = [futures EXCEPT ![k] = RedactFuture(texts[k])]
        /\ finished' = Append(finished, k)
    /\ UNCHANGED <<pc, op, resolverVars, lateVars, callVars, batchVars, configVars,
                   restoreVars, validateVars, singletonVars, redactThreadVars>>

\* every task is done: await asyncio.gather(*tasks) returns the list
GatherReturns ==
    /\ pc = "gather"
    /\ \A k \in 1..Len(futures) : futures[k].state = "done"
    /\ results' = Gather(futures, finished)
    /\ outcome' = "returned"
    /\ pc' = "done"
    /\ UNCHANGED <<op, asyncVars, resolverVars, lateVars, configVars, restoreVars,
                   validateVars, singletonVars, redactThreadVars, texts,
                   chunk_size, batch_i, text, deanonymize, nlp_invoked,
                   nlp_raised, nlp_text, doc, ents, redacted_text, entity_map,
                   entity_positions, original_text, restored, replacements>>

\* a task raised: gather raises the exception of the first task that did
GatherRaises ==
    /\ pc = "gather"
    /\ \E k \in 1..Len(finished) :
        /\ futures[finished[k]].state = "raised"
        /\ \A j \in 1..(k - 1) : futures[finished[j]].state = "done"
        /\ outcome' = futures[finished[k]].value
    /\ results' = <<>>
    /\ pc' = "done"
    /\ UNCHANGED <<op, asyncVars, resolverVars, lateVars, configVars, restoreVars,
                   validateVars, singletonVars, redactThreadVars, texts,
                   chunk_size, batch_i, text, deanonymize, nlp_invoked,
                   nlp_raised, nlp_text, doc, ents, redacted_text, entity_map,
                   entity_positions, original_text, restored, replacements>>

NextAsync ==
    \/ RedactBatchAsyncStart
    \/ WorkerFinishes
    \/ GatherReturns
    \/ GatherRaises
    \/ Return

SpecAsync == InitBatch /\ [][NextAsync]_vars

(***************************************************************************)
(* The validators of inconnu/nlp/validators.py.  A validator returns        *)
(* (is_valid, confidence); the confidence is kept in hundredths, so 0.95    *)
(* is 95.                                                                   *)
(***************************************************************************)
\* a character str.isdigit() accepts although int() does not
SuperscriptTwo == "²"

\* s.isdigit() of Python: not empty, and every character is a digit
IsDigit(s) ==
    /\ Len(s) > 0
    /\ \A i \in 0..(Len(s) - 1) : CharAt(s, i) \in Digits \cup {SuperscriptTwo}

\* int(s) of Python raises ValueError
IntRaises(s) == \E i \in 0..(Len(s) - 1) : CharAt(s, i) \notin Digits

\* int(s) of Python for a string of decimal digits
RECURSIVE ParseInt(_)
ParseInt(s) ==
    IF Len(s) = 0 THEN 0
    ELSE 10 * ParseInt(SubSeq(s, 1, Len(s) - 1))
         + Find("0123456789", CharAt(s, Len(s) - 1))

\* s[::-1] of Python
RECURSIVE Reversed(_)
Reversed(s) == IF Len(s) = 0 THEN "" ELSE Reversed(Tail(s)) \o Head(s)

\* re.match(r"^\d{n}$", s) for ASCII s: "$" also matches before a final "\n"
MatchesDigits(s, n) ==
    LET body == IF Len(s) = n + 1 /\ CharAt(s, n) = "\n"
                THEN SubSeq(s, 1, n) ELSE s
    IN  Len(body) = n /\ \A i \in 0..(n - 1) : CharAt(body, i) \in Digits

Rejected == [raised |-> FALSE, is_valid |-> FALSE, confidence |-> 0]
Accepted(c) == [raised |-> FALSE, is_valid |-> TRUE, confidence |-> c]
ValueError == [raised |-> TRUE, is_valid |-> FALSE, confidence |-> 0]

\* validate_ssn: re.match(r"^(\d{3})-(\d{2})-(\d{4})$", text) for ASCII text
SsnMatches(t) ==
    /\ Len(t) >= 11
    /\ \A i \in 0..2 : CharAt(t, i) \in Digits
    /\ CharAt(t, 3) = "-"
    /\ \A i \in 4..5 : CharAt(t, i) \in Digits
    /\ CharAt(t, 6) = "-"
    /\ MatchesDigits(SubSeq(t, 8, Len(t)), 4)

test_ssns == {"123-45-6789", "078-05-1120", "219-09-9999"}

ValidateSsn(t) ==
    IF ~SsnMatches(t) THEN Rejected
    ELSE LET area == Slice(t, 0, 3)
             group == Slice(t, 4, 6)
             serial == Slice(t, 7, 11)
         IN  IF \/ area = "000"
                \/ area = "666"
                \/ (900 <= ParseInt(area) /\ ParseInt(area) <= 999)
             THEN Rejected
             ELSE IF group = "00" THEN Rejected
             ELSE IF serial = "0000" THEN Rejected
             ELSE IF t \in test_ssns THEN Accepted(90)
             ELSE Accepted(95)

\* the doubling step of the Luhn loop of validate_credit_card
CardDoubledWithoutReduction(n) == 2 * n

CardDoubled(n) == IF 2 * n > 9 THEN 2 * n - 9 ELSE 2 * n

\* the Luhn loop of validate_credit_card from offset i of reverse_digits
RECURSIVE CardTotal(_, _)
CardTotal(reverse_digits, i) ==
    IF i >= Len(reverse_digits) THEN 0
    ELSE LET n == ParseInt(CharAt(reverse_digits, i))
         IN  (IF i % 2 = 1 THEN CardDoubled(n) ELSE n)
             + CardTotal(reverse_digits, i + 1)

ValidateCreditCard(t) ==
    LET card_number == Replace(Replace(t, " ", ""), "-", "")
    IN  IF ~IsDigit(card_number) THEN Rejected
        ELSE IF Len(card_number) < 13 \/ Len(card_number) > 19 THEN Rejected
        ELSE IF IntRaises(card_number) THEN ValueError
        ELSE IF CardTotal(Reversed(card_number), 0) % 10 = 0
             THEN IF \/ StartsWith(card_number, "4")
                     \/ \E m \in {"51", "52", "53", "54", "55"} :
                            StartsWith(card_number, m)
                     \/ StartsWith(card_number, "34")
                     \/ StartsWith(card_number, "37")
                     \/ StartsWith(card_number, "6011")
                     \/ StartsWith(card_number, "65")
                  THEN Accepted(90)
                  ELSE Accepted(70)
             ELSE Rejected

\* the doubling step of the Luhn loop of validate_npi
NpiDoubled(n) ==
    IF 2 * n > 9 THEN ((2 * n) \div 10) + ((2 * n) % 10) ELSE 2 * n

\* the Luhn loop of validate_npi from offset i of reversed(full_number)
RECURSIVE NpiTotal(_, _)
NpiTotal(reverse_digits, i) ==
    IF i >= Len(reverse_digits) THEN 0
    ELSE LET n == ParseInt(CharAt(reverse_digits, i))
         IN  (IF i % 2 = 0 THEN NpiDoubled(n) ELSE n)
             + NpiTotal(reverse_digits, i + 1)

ValidateNpi(t) ==
    IF ~MatchesDigits(t, 10) THEN Rejected
    ELSE LET full_number == "80840" \o t
         IN  IF IntRaises(full_number) THEN ValueError
             ELSE IF NpiTotal(Reversed(full_number), 0) % 10 = 0
                  THEN Accepted(95)
                  ELSE Rejected

\* the inputs of the validators
RECURSIVE Repeat(_, _)
Repeat(c, n) == IF n = 0 THEN "" ELSE c \o Repeat(c, n - 1)

RECURSIVE StringsOver(_, _)
StringsOver(chars, n) ==
    IF n = 0 THEN {""}
    ELSE LET shorter == StringsOver(chars, n - 1)
         IN  shorter \cup {s \o c : s \in shorter, c \in chars}

CardLeads == {"4", "52", "37", "6011 ", "65", "90"}
CardChars == {"0", "7", "-", "a", SuperscriptTwo}
CardTexts ==
    {lead \o Repeat("1", fill) \o tail :
        lead \in CardLeads, fill \in 0..MaxFill,
        tail \in StringsOver(CardChars, MaxTail)}

SsnTexts ==
    {lead \o area \o sep \o group \o sep \o serial \o trail :
        lead \in {"", "1"},
        area \in {"000", "001", "078", "123", "666", "667", "899", "900",
                  "999", "12a"},
        sep \in {"-", " "},
        group \in {"00", "01", "05", "45"},
        serial \in {"0000", "0001", "1120", "6789"},
        trail \in {"", "\n", "0"}}

NpiTexts ==
    {lead \o tail \o trail :
        lead \in {"12345678", "1234567"},
        tail \in StringsOver(Digits \cup {"a"}, 2),
        trail \in {"", "\n", "0"}}

ValidatorCall(name, t, r) ==
    /\ pc = "idle"
    /\ pc' = "done"
    /\ op' = name
    /\ text' = t
    /\ outcome' = IF r.raised THEN "ValueError" ELSE "returned"
    /\ is_valid' = r.is_valid
    /\ confidence' = r.confidence

validatorFrame ==
    <<resolverVars, deanonymize, nlp_invoked, nlp_raised, nlp_text, doc, ents,
      redacted_text, entity_map, entity_positions, restored, replacements,
      batchVars, configVars, restoreVars, validateVars, singletonVars,
      redactThreadVars, asyncVars, streamVars, constructVars>>

ValidateSsnCall ==
    /\ \E t \in SsnTexts : ValidatorCall("validate_ssn", t, ValidateSsn(t))
    /\ UNCHANGED <<validatorFrame, original_text>>

ValidateCreditCardCall ==
    /\ \E t \in CardTexts :
            ValidatorCall("validate_credit_card", t, ValidateCreditCard(t))
    /\ UNCHANGED <<validatorFrame, original_text>>

ValidateNpiCall ==
    /\ \E t \in NpiTexts : ValidatorCall("validate_npi", t, ValidateNpi(t))
    /\ UNCHANGED <<validatorFrame, original_text>>

\* validate_credit_card is called again on an accepted number in which one
\* digit was changed; original_text keeps the accepted number
ValidateChangedCard ==
    /\ pc = "done"
    /\ op = "validate_credit_card"
    /\ is_valid
    /\ original_text = ""
    /\ \E i \in 0..(Len(text) - 1), d \in Digits :
            /\ CharAt(text, i) \in Digits
            /\ CharAt(text, i) # d
            /\ LET t == Slice(text, 0, i) \o d \o Slice(text, i + 1, Len(text))
                   r == ValidateCreditCard(t)
               IN  /\ text' = t
                   /\ original_text' = text
                   /\ outcome' = IF r.raised THEN "ValueError" ELSE "returned"
                   /\ is_valid' = r.is_valid
                   /\ confidence' = r.confidence
    /\ UNCHANGED <<pc, op, validatorFrame>>

NextValidators ==
    \/ ValidateSsnCall
    \/ ValidateCreditCardCall
    \/ ValidateNpiCall
    \/ ValidateChangedCard
    \/ Return

SpecValidators == Init /\ [][NextValidators]_vars

(***************************************************************************)
(* The engine behind a pipeline whose entities carry the labels of the     *)
(* English and the German models.                                          *)
(***************************************************************************)
\* labels of the statistical models: PERSON, PERCENT, ORG and CARDINAL of the
\* English one, PER of the German one
PipelineLabels == {"PERSON", "PER", "PERCENT", "ORG", "CARDINAL"}

LabelledTokens == {"Jo", "50", " "}

LabelledDocs == UNION {[1..n -> LabelledTokens] : n \in 0..MaxTokens}

LabelledEntLists(tokens) ==
    LET all == {MkSpan(tokens, s, e, l) :
                    s \in 0..(Len(tokens) - 1), e \in 1..Len(tokens),
                    l \in PipelineLabels}
        ranges == {x \in all : x.start < x.end}
    IN  UNION {{q \in [1..n -> ranges] :
                   \A i \in 1..(n - 1) : q[i].end <= q[i + 1].start} :
               n \in 0..Min(MaxEnts, Len(tokens))}

\* Inconnu.__call__(text=, deanonymize=) with a pipeline that returns
LabelledCall ==
    /\ pc = "idle"
    /\ \E k \in LabelledDocs, mode \in BOOLEAN :
        \E e \in LabelledEntLists(k) :
            LET t == DocText(k)
                answer == [raised |-> FALSE, tokens |-> k, ents |-> e]
                r == EntityRedactorRedact(t, answer, mode)
            IN  /\ ~TooLong(t)
                /\ text' = t
                /\ deanonymize' = mode
                /\ InvokeProvider(t, answer)
                /\ outcome' = "returned"
                /\ redacted_text' = r.redacted_text
                /\ entity_map' = r.entity_map
                /\ replacements' = r.replacements
                /\ entity_positions' = <<>>
                /\ original_text' = ""
    /\ restored' = ""
    /\ pc' = "done"
    /\ op' = "__call__"
    /\ UNCHANGED <<resolverVars, batchVars, configVars, otherVars>>

NextLabels == LabelledCall \/ Return

SpecLabels == Init /\ [][NextLabels]_vars

(***************************************************************************)
(* redact_stream(text, chunk_size, overlap), one window of the loop at a    *)
(* time, behind a pipeline that finds no entity in any window.  batch_i is  *)
(* the loop variable i and results is result_parts.                        *)
(***************************************************************************)
StreamTexts == {SubSeq("abcdefghijkl", 1, n) : n \in 0..MaxStreamLen}

\* self.redact(chunk) when the pipeline finds nothing
RedactWithoutEntities(chunk) ==
    RedactResult(chunk,
                 [raised |-> FALSE,
                  tokens |-> IF chunk = "" THEN <<>> ELSE <<chunk>>,
                  ents |-> <<>>])

\* max(0, i - overlap if i > 0 else 0)
ChunkStart(i) == IF i > 0 /\ i - overlap > 0 THEN i - overlap ELSE 0

\* min(len(text), i + chunk_size)
ChunkEnd(i) == Min(Len(text), i + chunk_size)

\* "".join(parts)
RECURSIVE Join(_)
Join(parts) == IF parts = <<>> THEN "" ELSE Head(parts) \o Join(Tail(parts))

streamFrame ==
    <<resolverVars, deanonymize, nlp_invoked, nlp_raised, nlp_text, doc, ents,
      entity_map, entity_positions, original_text, restored, replacements,
      texts, configVars, restoreVars, validateVars, singletonVars,
      redactThreadVars, asyncVars, validatorVars, constructVars>>

\* redact_stream up to its loop; a text of at most chunk_size characters is
\* handed to redact as it is
RedactStreamStart ==
    /\ pc = "idle"
    /\ \E t \in StreamTexts, size \in 1..MaxChunk, lap \in 0..MaxOverlap :
        /\ text' = t
        /\ chunk_size' = size
        /\ overlap' = lap
        /\ IF Len(t) <= size
           THEN /\ pc' = "done"
                /\ outcome' = IF TooLong(t) THEN "TextTooLongError"
                              ELSE RedactWithoutEntities(t).outcome
                /\ redacted_text' = IF TooLong(t) THEN ""
                                    ELSE RedactWithoutEntities(t).value
           ELSE /\ pc' = "window"
                /\ UNCHANGED <<outcome, redacted_text>>
    /\ results' = <<>>
    /\ batch_i' = 0
    /\ op' = "redact_stream"
    /\ UNCHANGED streamFrame

\* one iteration of while i < len(text)
RedactStreamWindow ==
    /\ pc = "window"
    /\ batch_i < Len(text)
    /\ LET chunk == Slice(text, ChunkStart(batch_i), ChunkEnd(batch_i))
           redacted_chunk == RedactWithoutEntities(chunk)
       IN  IF TooLong(chunk) \/ redacted_chunk.outcome # "returned"
           THEN /\ outcome' = IF TooLong(chunk) THEN "TextTooLongError"
                              ELSE redacted_chunk.outcome
                /\ pc' = "done"
                /\ UNCHANGED <<results, batch_i>>
           ELSE /\ results' =
                     Append(results,
                            IF batch_i > 0 /\ overlap > 0
                            THEN Slice(redacted_chunk.value, overlap,
                                       Len(redacted_chunk.value))
                            ELSE redacted_chunk.value)
                /\ batch_i' = ChunkEnd(batch_i)
                /\ UNCHANGED <<pc, outcome>>
    /\ UNCHANGED <<op, text, chunk_size, overlap, redacted_text, streamFrame>>

\* return "".join(result_parts)
RedactStreamReturn ==
    /\ pc = "window"
    /\ batch_i >= Len(text)
    /\ redacted_text' = Join(results)
    /\ outcome' = "returned"
    /\ pc' = "done"
    /\ UNCHANGED <<op, text, chunk_size, overlap, results, batch_i,
                   streamFrame>>

NextStream ==
    \/ RedactStreamStart
    \/ RedactStreamWindow
    \/ RedactStreamReturn
    \/ Return

SpecStream == Init /\ [][NextStream]_vars

(***************************************************************************)
(* Inconnu(language=, custom_components=) called by one thread: the engine *)
(* takes its EntityRedactor from the registry.  pipelines[l] holds the      *)
(* custom components in the pipeline of the instance of language l.        *)
(***************************************************************************)
\* the components a caller can hand to the constructor
CustomComponents == {"CUSTOM_SSN", "EMPLOYEE_ID"}

constructFrame ==
    <<resolverVars, callVars, batchVars, configVars, restoreVars,
      validateVars, redactThreadVars, asyncVars, validatorVars, streamVars,
      global_lock, threads>>

\* Inconnu(language=l, custom_components=c): EntityRedactor(custom_components
\* =c, language=l) returns the registered instance, or runs __init__, which
\* adds c to the pipeline, and registers the new one
Construct ==
    /\ pc = "idle"
    /\ \E l \in Languages, c \in SUBSET CustomComponents :
        IF instances[l] # 0
        THEN /\ engine' = [language |-> l, custom_components |-> c,
                           instance |-> instances[l]]
             /\ UNCHANGED <<instances, ctor_calls, pipelines>>
        ELSE /\ instances' = [instances EXCEPT ![l] = NewInstance]
             /\ ctor_calls' = [ctor_calls EXCEPT ![l] = @ + 1]
             /\ pipelines' = [pipelines EXCEPT ![l] = c]
             /\ engine' = [language |-> l, custom_components |-> c,
                           instance |-> NewInstance]
    /\ pc' = "done"
    /\ op' = "Inconnu"
    /\ UNCHANGED constructFrame

\* inconnu.add_custom_components(c), the method of the EntityRedactor the
\* engine holds: c is added to the pipeline of that instance; the components
\* are named after their labels and nlp.add_pipe takes a name once, so c is
\* not in the pipeline yet
AddCustomComponents ==
    /\ pc = "done"
    /\ op = "Inconnu"
    /\ \E c \in (SUBSET CustomComponents) \ {{}} :
        /\ c \cap pipelines[engine.language] = {}
        /\ pipelines' = [pipelines EXCEPT ![engine.language] = @ \cup c]
    /\ op' = "add_custom_components"
    /\ UNCHANGED <<pc, engine, instances, ctor_calls, constructFrame>>

NextConstruct == Construct \/ AddCustomComponents \/ Return

SpecConstruct == InitSingleton /\ [][NextConstruct]_vars

(***************************************************************************)
(* Properties of the entry points.                                         *)
(***************************************************************************)
EntryPoints == {"redact", "pseudonymize", "__call__"}

Called == pc = "done" /\ op \in EntryPoints

\* a reversible __call__ returned and its ProcessedData was deanonymized
Restored == pc = "restored" /\ deanonymize

AllIn(x, chars) == \A i \in 1..Len(x) : SubSeq(x, i, i) \in chars

\* x matches the placeholder grammar \[[A-Z_]+(_\d+)?\] as a whole
PlaceholderShaped(x) ==
    /\ Len(x) >= 3
    /\ SubSeq(x, 1, 1) = "["
    /\ SubSeq(x, Len(x), Len(x)) = "]"
    /\ LET inner == SubSeq(x, 2, Len(x) - 1)
       IN  \/ AllIn(inner, UpperOrUnderscore)
           \/ \E k \in 1..(Len(inner) - 2) :
                /\ AllIn(SubSeq(inner, 1, k), UpperOrUnderscore)
                /\ SubSeq(inner, k + 1, k + 1) = "_"
                /\ AllIn(SubSeq(inner, k + 2, Len(inner)), Digits)

\* t has a substring that matches the placeholder grammar
ContainsPlaceholderToken(t) ==
    \E i \in 1..Len(t), j \in 1..Len(t) :
        i < j /\ PlaceholderShaped(SubSeq(t, i, j))

\* C2: when the span provider raises, redact, pseudonymize and __call__ raise
\* ProcessingError and return nothing.
C2_ProviderFailureRaises ==
    (Called /\ nlp_raised) => outcome = "ProcessingError"

\* C3: restoring a reversible redaction with the entity map of the same call
\* gives back the text, for every text and all detected spans.
C3_RoundTrip == Restored => restored = text

\* C4: for a text without a substring that matches the placeholder grammar,
\* restoring the reversible redaction with the entity map of the same call
\* gives back the text, whatever spans were detected.
C4_RoundTripOnCleanText ==
    (Restored /\ ~ContainsPlaceholderToken(text)) => restored = text

\* C4 witness: a clean text was redacted with an entity that ended in white
\* space or a line break and was trimmed, and was then restored
C4_Witness ==
    /\ Restored
    /\ ~ContainsPlaceholderToken(text)
    /\ entity_map # <<>>
    /\ \E i \in 1..Len(ents) :
        /\ NormalizeLabel(ents[i].label_) # "CARDINAL"
        /\ CharAt(text, ents[i].end_char - 1) \in {" ", "\n"}
        /\ CharAt(text, ents[i].start_char) \notin {" ", "\n"}

\* C5: when the text holds a literal equal to a placeholder the redaction
\* generates, deanonymize restores the inserted occurrence only and leaves the
\* literal as it is, so the text comes back.
C5_LiteralPlaceholderUntouched ==
    (Restored /\ \E i \in 1..Len(entity_map) :
                    Find(text, entity_map[i][1]) # -1)
        => restored = text

\* C6: after a reversible call, entity_positions has an entry for every key of
\* the entity map, and every entry locates its placeholder in redacted_text.
C6_PositionsLocatePlaceholders ==
    (pc = "done" /\ op = "__call__" /\ outcome = "returned" /\ deanonymize) =>
        /\ \A i \in 1..Len(entity_map) :
             \E j \in 1..Len(entity_positions) :
                 entity_positions[j][1] = entity_map[i][1]
        /\ \A j \in 1..Len(entity_positions) :
             Slice(redacted_text, entity_positions[j][2][1],
                   entity_positions[j][2][2]) = entity_positions[j][1]

\* C9: redact, pseudonymize and __call__ raise TextTooLongError exactly when
\* len(text) > max_text_length, before the span provider is invoked; a text
\* that is not longer is handed to the provider whole and is processed.
C9_TextTooLongExactly ==
    Called =>
        /\ (outcome = "TextTooLongError") <=> (Len(text) > max_text_length)
        /\ (outcome = "TextTooLongError") => ~nlp_invoked
        /\ (Len(text) <= max_text_length) =>
             (nlp_invoked /\ nlp_text = text /\ outcome = "returned")

\* C9 witness: a text longer than the limit was rejected
C9_Witness ==
    /\ Called
    /\ Len(text) > max_text_length
    /\ outcome = "TextTooLongError"
    /\ ~nlp_invoked

\* C10: redact_batch returns a list as long as texts whose i-th element is
\* what redact returns for texts[i], for every chunk size; it raises when
\* redact raises for one of the texts.
C10_BatchEqualsIndividual ==
    (pc = "done" /\ op = "redact_batch") =>
        IF \E i \in 1..Len(texts) : TooLong(texts[i].text)
        THEN outcome = "TextTooLongError"
        ELSE /\ outcome = "returned"
             /\ Len(results) = Len(texts)
             /\ \A i \in 1..Len(texts) :
                  results[i] =
                      RedactResult(texts[i].text, texts[i].answer).value

\* C10 witness: three texts in chunks of two, the last chunk short, and at
\* least one text redacted
C10_Witness ==
    /\ pc = "done"
    /\ op = "redact_batch"
    /\ outcome = "returned"
    /\ Len(texts) = 3
    /\ chunk_size = 2
    /\ \E i \in 1..Len(texts) : results[i] # texts[i].text
    /\ \E i, j \in 1..Len(texts) : results[i] # results[j]

(***************************************************************************)
(* Properties of the replacements of one call.                             *)
(***************************************************************************)
\* the call ran the loop over the entities and returned
Redacted == Called /\ outcome = "returned" /\ ~nlp_raised

\* the replacements of the call by start offset
DocOrder ==
    [i \in 1..Len(replacements) |->
        replacements[Len(replacements) + 1 - i]]

\* the text with the ranges of d (in document order) replaced, built from
\* the left
RECURSIVE Rebuilt(_, _, _)
Rebuilt(t, d, pos) ==
    IF d = <<>> THEN Slice(t, pos, Len(t))
    ELSE Slice(t, pos, Head(d)[1]) \o Head(d)[3] \o
         Rebuilt(t, Tail(d), Head(d)[2])

\* the label a replaced range was detected with
DetectedLabel(r) ==
    LET e == CHOOSE i \in 1..Len(ents) : ents[i].start_char = r[1]
    IN  ents[e].label_

\* PER and PERSON are the person label
PersonFolded(label) == IF label \in {"PER", "PERSON"} THEN "PERSON" ELSE label

\* how many replaced ranges before the i-th carry its label
EarlierOfLabel(i) ==
    Cardinality({j \in 1..(i - 1) :
        PersonFolded(DetectedLabel(DocOrder[j])) =
            PersonFolded(DetectedLabel(DocOrder[i]))})

\* C11: in reversible mode the k-th replaced span of a label, by start
\* offset, gets the placeholder [LABEL_k] counted from 0, the placeholders of
\* a call are distinct, and the entity map maps each to the substring it
\* replaced.
C11_NumberedInDocumentOrder ==
    (Redacted /\ deanonymize) =>
        /\ \A i \in 1..Len(DocOrder) :
             DocOrder[i][3] =
                 "[" \o PersonFolded(DetectedLabel(DocOrder[i])) \o "_" \o
                 IntToStr(EarlierOfLabel(i)) \o "]"
        /\ \A i, j \in 1..Len(DocOrder) :
             i # j => DocOrder[i][3] # DocOrder[j][3]
        /\ Len(entity_map) = Len(DocOrder)
        /\ Elems(entity_map) =
             {<<DocOrder[i][3], Slice(text, DocOrder[i][1], DocOrder[i][2])>> :
                 i \in 1..Len(DocOrder)}
        /\ redacted_text = Rebuilt(text, DocOrder, 0)

\* C11 witness: a reversible call replaced two spans of the person label, one
\* detected as PER and one as PERSON, and numbered them 0 and 1
C11_Witness ==
    /\ Redacted
    /\ deanonymize
    /\ Len(replacements) = 2
    /\ {DetectedLabel(replacements[1]), DetectedLabel(replacements[2])} =
         {"PER", "PERSON"}
    /\ redacted_text = "[PERSON_0][PERSON_1]"

\* C12: in non-reversible mode every inserted placeholder is [LABEL] without
\* an index and the returned entity map is empty, whatever was detected.
C12_NonReversibleKeepsNothing ==
    (Redacted /\ ~deanonymize) =>
        /\ \A i \in 1..Len(DocOrder) :
             DocOrder[i][3] =
                 "[" \o PersonFolded(DetectedLabel(DocOrder[i])) \o "]"
        /\ entity_map = <<>>
        /\ redacted_text = Rebuilt(text, DocOrder, 0)

\* C12 witness: a non-reversible __call__ replaced two spans of one label with
\* the same placeholder
C12_Witness ==
    /\ Redacted
    /\ op = "__call__"
    /\ ~deanonymize
    /\ Len(replacements) = 2
    /\ replacements[1][3] = replacements[2][3]
    /\ entity_map = <<>>

\* the number of characters c in s
CountChar(s, c) == Cardinality({i \in 1..Len(s) : SubSeq(s, i, i) = c})

\* C13: no replaced range is empty, contains a line feed or ends in a space,
\* a tab or a carriage return, and the redacted text has as many line feeds
\* as the text.
C13_NewlinesPreserved ==
    Redacted =>
        /\ \A i \in 1..Len(replacements) :
             LET r == replacements[i]
                 replaced == Slice(text, r[1], r[2])
             IN  /\ r[1] < r[2]
                 /\ Find(replaced, "\n") = -1
                 /\ CharAt(text, r[2] - 1) \notin {" ", "\t", "\r"}
        /\ CountChar(redacted_text, "\n") = CountChar(text, "\n")

\* C13 witness: an entity that ran over a line break was replaced up to the
\* line break only
C13_Witness ==
    /\ Redacted
    /\ \E i \in 1..Len(ents), j \in 1..Len(replacements) :
        /\ replacements[j][1] = ents[i].start_char
        /\ replacements[j][2] < ents[i].end_char
        /\ Find(ents[i].text, "\n") > 0
    /\ CountChar(text, "\n") > 0

(***************************************************************************)
(* Properties of restore.                                                  *)
(***************************************************************************)
RestoreDone == pc = "done" /\ op = "restore"

\* the substrings of t that match the placeholder grammar
PlaceholderTokens(t) ==
    {x \in {SubSeq(t, i, j) : i \in 1..Len(t), j \in 1..Len(t)} :
        PlaceholderShaped(x)}

Keys(m) == {m[k][1] : k \in 1..Len(m)}

RestoredPiece(piece) ==
    IF piece \in Keys(entity_map)
    THEN LET k == CHOOSE i \in 1..Len(entity_map) : entity_map[i][1] = piece
         IN  entity_map[k][2]
    ELSE piece

Validated == pc = "done" /\ op = "validate_entity_spans"

WellFormed(span) == DOMAIN span = {"start", "end"}

\* the test the documentation gives for a span
InBounds(span) ==
    /\ WellFormed(span)
    /\ 0 <= span.start
    /\ span.start < span.end
    /\ doc_length # NoLength =>
         (span.start < doc_length /\ span.end <= doc_length)

\* C16: validate_entity_spans returns as valid exactly the spans, in input
\* order, with 0 <= start < end and, when a doc_length is given (0
\* included), start < doc_length and end <= doc_length.
C16_ValidExactlyInBounds ==
    Validated => valid_spans = SelectSeq(spans, InBounds)

\* C17: validate_entity_spans returns for every list: each span is valid or
\* has one error string, so len(valid_spans) + len(errors) = len(spans), and
\* a malformed span does not keep a later well-formed span from being
\* returned.
C17_EverySpanAccounted ==
    Validated =>
        /\ outcome = "returned"
        /\ Len(valid_spans) + Len(errors) = Len(spans)
        /\ \A i \in 1..Len(spans) :
             (/\ WellFormed(spans[i])
              /\ 0 <= spans[i].start
              /\ spans[i].start < spans[i].end
              /\ doc_length = NoLength)
                => spans[i] \in Elems(valid_spans)
        /\ \A i \in 1..Len(spans) :
             ~WellFormed(spans[i]) =>
                 /\ spans[i] \notin Elems(valid_spans)
                 /\ \E k \in 1..Len(errors) :
                      Find(errors[k], "pan " \o IntToStr(i - 1)) # -1

\* C17 witness: a span whose inspection raises came first, a well-formed one
\* after it was returned, and the error of the first was collected
C17_Witness ==
    /\ Validated
    /\ Len(spans) = 2
    /\ Raises(spans[1])
    /\ valid_spans = <<spans[2]>>
    /\ errors = <<"Error validating span 0: boom">>

(***************************************************************************)
(* Properties of the singleton registry.                                   *)
(***************************************************************************)
\* C18: whatever the interleaving of EntityRedactor(language=L) calls, the
\* constructor runs at most once for a language, every call returns the
\* instance of its language, and the instances of two languages differ.
C18_OneInstancePerLanguage ==
    /\ \A l \in Languages : ctor_calls[l] <= 1
    /\ \A t \in Threads :
         /\ threads[t].pc # "KeyError"
         /\ threads[t].pc = "returned" =>
              /\ threads[t].result # 0
              /\ threads[t].result = instances[threads[t].language]
    /\ \A t, u \in Threads :
         (threads[t].pc = "returned" /\ threads[u].pc = "returned") =>
             ((threads[t].language = threads[u].language)
                 <=> (threads[t].result = threads[u].result))

\* C18 witness: two threads made their first call for one language at the
\* same time, both went past the first check and took the slow path, and
\* both returned the one instance
C18_Witness ==
    /\ \A t \in Threads :
         /\ threads[t].pc = "returned"
         /\ threads[t].path = "slow"
         /\ threads[t].calls = 1
         /\ threads[t].language = "en"
         /\ threads[t].result = instances["en"]
    /\ ctor_calls["en"] = 1

(***************************************************************************)
(* Properties of concurrent calls on one engine.                           *)
(***************************************************************************)
\* the pieces of t at the ranges of the entities of answer a
SpanTexts(a) == {a.ents[i].text : i \in 1..Len(a.ents)}

\* C19: whatever calls ran before or run at the same time on the engine, a
\* call returns what it returns on its own: its placeholders are numbered
\* from 0 and its entity map has entries for spans of its own text only.
C19_CallsAreIndependent ==
    \A t \in Threads :
        frames[t].pc = "done" =>
            LET f == frames[t]
                alone == EntityRedactorRedact(f.text, f.answer, f.deanonymize)
            IN  /\ f.redacted_text = alone.redacted_text
                /\ f.result_map = alone.entity_map
                /\ \A k \in 1..Len(f.result_map) :
                     f.result_map[k][2] \in SpanTexts(f.answer)
                /\ Len(f.result_map) <= Len(f.answer.ents)
                /\ f.result_map # <<>> =>
                     \E k \in 1..Len(f.result_map) :
                         f.result_map[k][1] \in {"[PERSON_0]", "[LOC_0]"}

\* C19 witness: a reversible call ran its loop while another call had
\* already numbered a person of its own, and it numbered its person from 0
C19_Witness ==
    \E t, u \in Threads :
        /\ t # u
        /\ frames[u].pc = "loop"
        /\ frames[u].deanonymize
        /\ frames[u].replacements # <<>>
        /\ frames[u].replacements[1][3] = "[PERSON_0]"
        /\ frames[t].pc = "done"
        /\ frames[t].deanonymize
        /\ frames[t].redacted_text = "[PERSON_0][PERSON_1]"
        /\ Len(frames[t].result_map) = 2

(***************************************************************************)
(* Properties of redact_batch_async.                                       *)
(***************************************************************************)
\* C20: redact_batch_async returns what redact_batch returns for the same
\* texts, in input order, in whatever order the workers finish; it raises
\* what redact_batch raises.
C20_AsyncEqualsBatch ==
    (pc = "done" /\ op = "redact_batch_async") =>
        LET sync == RedactBatchFrom(texts, 0, default_chunk, <<>>)
        IN  /\ outcome = sync.outcome
            /\ results = sync.results
            /\ outcome = "returned" =>
                 /\ Len(results) = Len(texts)
                 /\ \A i \in 1..Len(texts) :
                      results[i] =
                          RedactResult(texts[i].text, texts[i].answer).value

\* C20 witness: three texts with three different results, the worker of the
\* last text finished first
C20_Witness ==
    /\ pc = "done"
    /\ op = "redact_batch_async"
    /\ outcome = "returned"
    /\ Len(texts) = 3
    /\ finished = <<3, 1, 2>>
    /\ \A i, j \in 1..3 : i # j => results[i] # results[j]

(***************************************************************************)
(* Properties of the validators.                                           *)
(***************************************************************************)
\* the characters of s that are neither a space nor a hyphen
RECURSIVE WithoutSeparators(_)
WithoutSeparators(s) ==
    IF Len(s) = 0 THEN ""
    ELSE IF Head(s) \in {" ", "-"} THEN WithoutSeparators(Tail(s))
    ELSE Head(s) \o WithoutSeparators(Tail(s))

AllDecimal(s) == \A i \in 1..Len(s) : SubSeq(s, i, i) \in Digits

DigitValue(c) == CHOOSE v \in 0..9 : IntToStr(v) = c

\* the Luhn sum of the digits of s from the p-th digit counted from the
\* right (the rightmost is the first): every second one is doubled
RECURSIVE LuhnSum(_, _)
LuhnSum(s, p) ==
    IF p > Len(s) THEN 0
    ELSE LET d == DigitValue(SubSeq(s, Len(s) - p + 1, Len(s) - p + 1))
         IN  (IF p % 2 = 1 THEN d
              ELSE IF 2 * d > 9 THEN 2 * d - 9 ELSE 2 * d)
             + LuhnSum(s, p + 1)

PassesLuhn(s) == AllDecimal(s) /\ LuhnSum(s, 1) % 10 = 0

ValidatorReturned(name) == pc = "done" /\ op = name /\ outcome = "returned"

\* C21: validate_credit_card(t) is valid exactly when t without spaces and
\* hyphens is 13 to 19 digits with a Luhn sum divisible by 10; an accepted
\* number with one digit changed is rejected; a rejection has confidence 0.0
C21_LuhnExactly ==
    (pc = "done" /\ op = "validate_credit_card") =>
        LET card == WithoutSeparators(text)
        IN  /\ is_valid <=>
                    (Len(card) >= 13 /\ Len(card) <= 19 /\ PassesLuhn(card))
            /\ (original_text # "" => ~is_valid)
            /\ (outcome = "returned" /\ ~is_valid => confidence = 0)

C21_Witness ==
    /\ ValidatorReturned("validate_credit_card")
    /\ original_text # ""
    /\ PassesLuhn(WithoutSeparators(original_text))
    /\ ~is_valid
    /\ confidence = 0

\* t has the form DDD-DD-DDDD
SsnForm(t) ==
    /\ Len(t) = 11
    /\ \A i \in (1..11) \ {4, 7} : SubSeq(t, i, i) \in Digits
    /\ SubSeq(t, 4, 4) = "-"
    /\ SubSeq(t, 7, 7) = "-"

SsnArea(t) == SubSeq(t, 1, 3)
SsnGroup(t) == SubSeq(t, 5, 6)
SsnSerial(t) == SubSeq(t, 8, 11)

\* C22: validate_ssn(t) is valid exactly when t has the form DDD-DD-DDDD with
\* an area that is not 000, not 666 and not in 900-999, a group that is not
\* 00 and a serial that is not 0000; a rejection is (False, 0.0) and an
\* accepted input has a confidence of at least 0.9
C22_SsnExactly ==
    (pc = "done" /\ op = "validate_ssn") =>
        /\ outcome = "returned"
        /\ is_valid <=>
                /\ SsnForm(text)
                /\ SsnArea(text) \notin {"000", "666"}
                /\ Head(SsnArea(text)) # "9"
                /\ SsnGroup(text) # "00"
                /\ SsnSerial(text) # "0000"
        /\ (~is_valid => confidence = 0)
        /\ (is_valid => confidence >= 90)

\* C28: validate_npi accepts a string of 10 digits exactly when "80840"
\* followed by it passes the Luhn check of validate_credit_card, in which
\* the rightmost digit is not doubled and every second digit after it is
C28_NpiIsCardLuhn ==
    (ValidatorReturned("validate_npi") /\ Len(text) = 10 /\ AllDecimal(text))
        => (is_valid <=> ValidateCreditCard("80840" \o text).is_valid)

(***************************************************************************)
(* Properties of the labels.                                               *)
(***************************************************************************)
\* the entity was replaced
Replaced(ent) ==
    \E i \in 1..Len(replacements) : replacements[i][1] = ent.start_char

\* the entity starts with a character that is not trimmed away
StartsWithWord(ent) == Head(ent.text) \notin {" ", "\t", "\r", "\n"}

\* C23: only PER and PERSON are folded into PERSON: a replaced span with
\* another label gets a placeholder with that label, and the spans labelled
\* CARDINAL are the only ones dropped because of their label
C23_OnlyPersonFolded ==
    Redacted =>
        /\ \A i \in 1..Len(replacements) :
             LET label == DetectedLabel(replacements[i])
             IN  label \notin {"PER", "PERSON"} =>
                    \/ replacements[i][3] = "[" \o label \o "]"
                    \/ StartsWith(replacements[i][3], "[" \o label \o "_")
        /\ \A i \in 1..Len(ents) :
             StartsWithWord(ents[i]) =>
                (Replaced(ents[i]) <=> ents[i].label_ # "CARDINAL")

(***************************************************************************)
(* Properties of the candidates that share a start or a range.             *)
(***************************************************************************)
Length(span) == span.end - span.start

\* the positions of the returned list that hold a span starting at s
KeptAt(s) == {i \in 1..Len(filtered_spans) : filtered_spans[i].start = s}

\* C24: of the candidates that share a start offset at most one is
\* returned; a returned one is a longest of them and, among the longest,
\* one whose label has the highest priority
C24_OnePerStart ==
    Filtered =>
        \A s \in 0..(DocLen - 1) :
            /\ Cardinality(KeptAt(s)) <= 1
            /\ \A i \in KeptAt(s) :
                 \A c \in Elems(spans) :
                    c.start = s =>
                        /\ Length(c) <= Length(filtered_spans[i])
                        /\ Length(c) = Length(filtered_spans[i]) =>
                             Priority(c.label_) <=
                                 Priority(filtered_spans[i].label_)

\* C24 witness: three candidates of one start, the first one given shorter
\* than the others, and the two longest with labels of different priority:
\* the longest one with the higher priority was returned
C24_Witness ==
    /\ Filtered
    /\ Len(spans) = 3
    /\ spans[1].start = spans[2].start
    /\ spans[2].start = spans[3].start
    /\ Length(spans[1]) < Length(spans[2])
    /\ Length(spans[2]) = Length(spans[3])
    /\ Priority(spans[2].label_) < Priority(spans[3].label_)
    /\ filtered_spans = <<spans[3]>>

\* C25: a span labelled PER is ranked like PERSON: a candidate of the same
\* range whose label has a lower priority than PERSON (ORG, MISC) is not the
\* one that is returned
C25_PerRankedAsPerson ==
    Filtered =>
        \A a, b \in Elems(spans) :
            (/\ a.label_ = "PER"
             /\ b.label_ \in {"ORG", "MISC"}
             /\ a.start = b.start
             /\ a.end = b.end)
                => b \notin Elems(filtered_spans)

(***************************************************************************)
(* Properties of deanonymize.                                              *)
(***************************************************************************)
\* one scan of t from the left: where a key of m starts, its value is put
\* and the scan goes on after the key; other characters are copied
RECURSIVE OneScan(_, _)
OneScan(t, m) ==
    IF Len(t) = 0 THEN ""
    ELSE LET here == {k \in 1..Len(m) : StartsWith(t, m[k][1])}
         IN  IF here = {} THEN Head(t) \o OneScan(Tail(t), m)
             ELSE LET k == CHOOSE x \in here : TRUE
                  IN  m[k][2] \o
                      OneScan(SubSeq(t, Len(m[k][1]) + 1, Len(t)), m)

\* C26: deanonymize gives what one scan of the redacted text from the left
\* gives that replaces each placeholder of the entity map by its value: a
\* substituted value is not substituted again, and the order of the entries
\* of the entity map does not matter
C26_DeanonymizeIsOneScan ==
    Restored =>
        /\ restored = OneScan(redacted_text, entity_map)
        /\ \A o \in Orderings(entity_map) :
             Deanonymize(redacted_text, o) = restored

(***************************************************************************)
(* Properties of redact_stream.                                            *)
(***************************************************************************)
\* C27: the characters redact_stream strips from the front of a window are
\* the ones the window repeats: when no window yields an entity the text is
\* returned as it is, for every chunk_size >= 1 and every overlap >= 0
C27_StreamKeepsText ==
    (pc = "done" /\ op = "redact_stream") =>
        /\ outcome = "returned"
        /\ redacted_text = text

(***************************************************************************)
(* Properties of the constructor.                                          *)
(***************************************************************************)
\* C29: Inconnu(language=L, custom_components=C) returns an engine whose
\* pipeline contains the components C, also when an engine of language L
\* was created before
C29_PipelineHasComponents ==
    (pc = "done" /\ op = "Inconnu") =>
        engine.custom_components \subseteq pipelines[engine.language]

(***************************************************************************)
(* Properties of get-or-create calls next to clear_singleton_instances.    *)
(***************************************************************************)
\* C30: a get-or-create call that overlaps with clear_singleton_instances()
\* returns an instance: in no interleaving does its read of the entry it
\* found or created fail because the entry was removed
C30_NoKeyError == \A t \in Threads : threads[t].pc # "KeyError"
====
